---- MODULE Spec2Model ----
(***************************************************************************)
(* Batch scraping endpoint (PUT /api/scrape) and the retry loop of          *)
(* FinnishCompanyScraper.scrapeContactInfo.                                 *)
(*                                                                         *)
(* Strings that the code inspects (URLs, error messages) are sequences of   *)
(* lexemes, so that String.includes is a contiguous-subsequence test and    *)
(* template strings are concatenations.                                     *)
(*                                                                         *)
(* One action is one run-to-completion step of the event loop: from the     *)
(* callback that resumes an await up to the next await that suspends.       *)
(***************************************************************************)
EXTENDS Integers, Sequences, FiniteSets, TLC

VARIABLES
    body,       \* the JSON body of the PUT request
    phase,      \* "received" | "running" | "responded"
    chunks,     \* route.ts `chunks`
    cur,        \* index (1-based) of the chunk the for-of loop is at, 0 before
    tasks,      \* the pipelines of the current chunk (chunkPromises), by slot
    results,    \* route.ts `results`
    response,   \* the HTTP response, once sent
    single,     \* a POST /api/scrape request (single scrape) and its handler
    fn          \* a call of a pure function: its name, argument and result

batchVars == <<body, phase, chunks, cur, tasks, results, response>>
vars == <<body, phase, chunks, cur, tasks, results, response, single, fn>>

---------------------------------------------------------------------------
(* Program constants *)

maxRetries == 3
concurrencyLimit == 5
MaxBatchUrls == 50

(* Bounds of the model *)

\* longest batch whose URLs are drawn freely (see Batches)
MaxUrls == 6

\* Math.random() * 1000 + 500 lies in [500, 1500): the two ends of the range
JitterSamples == {500, 1499}

---------------------------------------------------------------------------
(* Small helpers *)

Min(a, b) == IF a < b THEN a ELSE b

\* String.prototype.includes on lexeme sequences
Includes(msg, pat) ==
    \E i \in 1..(Len(msg) - Len(pat) + 1) : SubSeq(msg, i, i + Len(pat) - 1) = pat

\* slice with the end index taken as inclusive
sliceInclusive(arr, begin, end) == SubSeq(arr, begin + 1, Min(end + 1, Len(arr)))

\* Array.prototype.slice(begin, end) with 0-based begin, exclusive end
slice(arr, begin, end) == SubSeq(arr, begin + 1, Min(end, Len(arr)))

StatusStr(s) ==
    CASE s = 200 -> "200" [] s = 400 -> "400" [] s = 401 -> "401"
      [] s = 403 -> "403" [] s = 404 -> "404" [] s = 405 -> "405"
      [] s = 410 -> "410" [] s = 429 -> "429" [] s = 503 -> "503"

StatusText(s) ==
    CASE s = 200 -> <<"OK">>
      [] s = 400 -> <<"Bad", "Request">>
      [] s = 401 -> <<"Unauthorized">>
      [] s = 403 -> <<"Forbidden">>
      [] s = 404 -> <<"Not", "Found">>
      [] s = 405 -> <<"Method", "Not", "Allowed">>
      [] s = 410 -> <<"Gone">>
      [] s = 429 -> <<"Too", "Many", "Requests">>
      [] s = 503 -> <<"Service", "Unavailable">>

NumStr(n) ==
    CASE n = 1 -> "1" [] n = 2 -> "2" [] n = 3 -> "3" [] n = 4 -> "4"
      [] n = 20000 -> "20000" [] n = 25000 -> "25000" [] n = 30000 -> "30000"

---------------------------------------------------------------------------
(* URLs *)

UpUrl       == <<"https", ":", "//", "up.fi">>
ClientErrUrl == <<"https", ":", "//", "client-error.fi">>
UnreachUrl  == <<"https", ":", "//", "unreachable.fi">>
FlakyUrl    == <<"http", ":", "//", "flaky.fi">>
NoSchemeUrl == <<"up.fi">>
NoHostUrl   == <<"https", ":", "//">>

ValidUrls == {UpUrl, ClientErrUrl, UnreachUrl, FlakyUrl}
BadUrls   == {NoSchemeUrl, NoHostUrl}
Urls      == ValidUrls \cup BadUrls

SpecialSchemes == {"http", "https", "ftp", "ws", "wss", "file"}

Host(url) == IF Len(url) >= 4 /\ url[3] = "//" THEN url[4] ELSE ""

\* new URL(url) with no base: needs a scheme, and a host for a special scheme
NewUrlThrows(url) ==
    \/ Len(url) < 2
    \/ url[2] # ":"
    \/ url[1] \in SpecialSchemes /\ Host(url) = ""

\* validation that accepts every string
isValidUrlAlways(url) == TRUE

isValidUrl(url) == ~NewUrlThrows(url)

---------------------------------------------------------------------------
(* The network, as axios sees it *)

Http(status, page) == [kind |-> "http", status |-> status, page |-> page, code |-> ""]
NetFail(code)      == [kind |-> "net", status |-> 0, page |-> "", code |-> code]

\* requests without a timeout: a host that does not answer leaves the
\* request open for ever
NetOutcomesNoTimeout(host) ==
    CASE host = "up.fi" -> {Http(200, "html")}
      [] host = "client-error.fi" ->
            {Http(s, "html") : s \in {400, 401, 403, 404, 405, 410, 429}}
      [] host = "unreachable.fi" -> {}
      [] host = "flaky.fi" ->
            {Http(200, "html"), Http(200, "malformed"), Http(503, "html"),
             Http(403, "html")}
      [] OTHER -> {NetFail("ENOTFOUND")}

\* What a request to each host can end with
NetOutcomes(host) ==
    CASE host = "up.fi" -> {Http(200, "html")}
      [] host = "client-error.fi" ->
            {Http(s, "html") : s \in {400, 401, 403, 404, 405, 410, 429}}
      [] host = "unreachable.fi" ->
            {NetFail(c) : c \in {"ENOTFOUND", "ECONNREFUSED", "EHOSTUNREACH", "TIMEOUT"}}
      [] host = "flaky.fi" ->
            {Http(200, "html"), Http(200, "malformed"), Http(503, "html"),
             Http(403, "html"), NetFail("TIMEOUT")}
      [] OTHER -> {NetFail("ENOTFOUND")}

\* the three request profiles
fetchWithFullHeaders ==
    [name |-> "full", timeout |-> 20000, maxRedirects |-> 10,
     headers |-> {"User-Agent", "Accept", "Accept-Language", "Accept-Encoding",
                  "Connection", "Upgrade-Insecure-Requests", "Sec-Fetch-Dest",
                  "Sec-Fetch-Mode", "Sec-Fetch-Site", "Sec-Fetch-User",
                  "Cache-Control", "Pragma", "DNT", "Referer"}]
fetchWithMinimalHeaders ==
    [name |-> "minimal", timeout |-> 25000, maxRedirects |-> 15,
     headers |-> {"User-Agent", "Accept", "Accept-Language", "Connection"}]
fetchSimple ==
    [name |-> "simple", timeout |-> 30000, maxRedirects |-> 20, headers |-> {}]

\* the minimal and the simple profile change places
FetchProfileSwapped(attempt) ==
    IF attempt = 1 THEN fetchWithFullHeaders
    ELSE IF attempt = 2 THEN fetchSimple
    ELSE fetchWithMinimalHeaders

\* lines 46-55
FetchProfile(attempt) ==
    IF attempt = 1 THEN fetchWithFullHeaders
    ELSE IF attempt = 2 THEN fetchWithMinimalHeaders
    ELSE fetchSimple

validateStatus(status) == status < 500

Resolved(status, page) ==
    [ok |-> TRUE, status |-> status, statusText |-> StatusText(status),
     data |-> page, message |-> <<>>]
Rejected(message) ==
    [ok |-> FALSE, status |-> 0, statusText |-> <<>>, data |-> "", message |-> message]

\* axios.get: resolves with the response when validateStatus accepts the
\* status, rejects with an Error otherwise and on a network failure
axiosGet(url, profile, raw) ==
    IF raw.kind = "http"
    THEN IF validateStatus(raw.status)
         THEN Resolved(raw.status, raw.page)
         ELSE Rejected(<<"Request", "failed", "with", "status", "code", StatusStr(raw.status)>>)
    ELSE IF raw.code = "TIMEOUT"
         THEN Rejected(<<"timeout", "of", NumStr(profile.timeout), "ms", "exceeded">>)
         ELSE IF raw.code = "ENOTFOUND"
              THEN Rejected(<<"getaddrinfo", "ENOTFOUND", Host(url)>>)
              ELSE Rejected(<<"connect", raw.code, Host(url)>>)

---------------------------------------------------------------------------
(* scrapeContactInfo *)

InvalidUrlMsg == <<"Invalid", "URL", "provided">>

\* the pattern list with '403' left out
PatternsWithout403 ==
    << <<"Invalid", "URL">>, <<"404">>, <<"401">>, <<"400">>,
       <<"ENOTFOUND">>, <<"ECONNREFUSED">> >>

\* the pattern list with '429' added
PatternsWith429 ==
    << <<"Invalid", "URL">>, <<"404">>, <<"403">>, <<"401">>, <<"400">>, <<"429">>,
       <<"ENOTFOUND">>, <<"ECONNREFUSED">> >>

nonRetryablePatterns ==
    << <<"Invalid", "URL">>, <<"404">>, <<"403">>, <<"401">>, <<"400">>,
       <<"ENOTFOUND">>, <<"ECONNREFUSED">> >>

isNonRetryableError(message) ==
    \E p \in 1..Len(nonRetryablePatterns) : Includes(message, nonRetryablePatterns[p])

HttpErrorMsg(status, statusText) ==
    <<"HTTP", StatusStr(status), ":">> \o statusText

\* cheerio.load and the extract* calls, all inside the try block
ExtractThrows(page) == page = "malformed"
ExtractErrorMsg == <<"Cannot", "read", "properties", "of", "undefined">>
ExtractAll(page) ==
    [contacts |-> <<>>, phoneNumbers |-> <<>>, emailAddresses |-> <<>>, people |-> <<>>]

FinalErrorMsg(url, lastError) ==
    <<"Failed", "to", "scrape">> \o url
        \o <<"after", NumStr(maxRetries), "attempts", ":">> \o lastError

Fulfilled(value) == [state |-> "fulfilled", value |-> value]
RejectedWith(reason) == [state |-> "rejected", value |-> reason]

\* the map callback with a data field in the failed result too
ChunkCallbackBothFields(url, out) ==
    IF out.ok
    THEN Fulfilled([url |-> url, success |-> TRUE, data |-> out.data])
    ELSE Fulfilled([url |-> url, success |-> FALSE, data |-> out.data, error |-> out.message])

\* the map callback without its try/catch: a throw rejects the promise
ChunkCallbackNoCatch(url, out) ==
    IF out.ok
    THEN Fulfilled([url |-> url, success |-> TRUE, data |-> out.data])
    ELSE RejectedWith(out.message)

\* the map callback of PUT (lines 89-106): how chunkPromises[k] settles once
\* scrapeContactInfo has returned or thrown
ChunkCallback(url, out) ==
    IF out.ok
    THEN Fulfilled([url |-> url, success |-> TRUE, data |-> out.data])
    ELSE Fulfilled([url |-> url, success |-> FALSE, error |-> out.message])

NewTask(url) ==
    [url |-> url, pc |-> "new", attempt |-> 0, lastError |-> <<>>,
     timer |-> 0, log |-> <<>>, out |-> <<>>, result |-> <<>>]

Settle(t, out) ==
    [t EXCEPT !.pc = "done", !.timer = 0, !.out = <<out>>,
              !.result = <<ChunkCallback(t.url, out)>>]

\* line 106: the throw after the loop
Throw(t) ==
    Settle(t, [ok |-> FALSE, data |-> <<>>, message |-> FinalErrorMsg(t.url, t.lastError)])

\* lines 81-86: the return inside the loop
Return(t, data) ==
    Settle(t, [ok |-> TRUE, data |-> data, message |-> <<>>])

\* the loop test off by one
LoopTestOffByOne(attempt) == attempt <= maxRetries + 1

\* line 26: the loop test
LoopTest(attempt) == attempt <= maxRetries

\* the progressive delay counted from the first retry
ProgressiveDelayFromRetry(attempt) == 1000 * (attempt - 1)

\* line 35: this.delay(1000 * attempt)
ProgressiveDelay(attempt) == 1000 * attempt

\* The for loop from its test `attempt <= maxRetries` up to the first await
\* of the iteration; `jitter` is the value Math.random gives at line 42.
RECURSIVE EnterAttempt(_, _, _)
Catch(t, message, jitter) ==
    LET t1 == [t EXCEPT !.lastError = message] IN
    IF isNonRetryableError(message)
    THEN Throw(t1)
    ELSE EnterAttempt(t1, t1.attempt + 1, jitter)

EnterAttempt(t, attempt, jitter) ==
    IF ~LoopTest(attempt)
    THEN Throw(t)
    ELSE LET t1 == [t EXCEPT !.attempt = attempt] IN
         IF ~isValidUrl(t.url)
         THEN Catch(t1, InvalidUrlMsg, jitter)
         ELSE IF attempt > 1
              THEN [t1 EXCEPT !.pc = "delay", !.timer = ProgressiveDelay(attempt)]
              ELSE [t1 EXCEPT !.pc = "jitter", !.timer = jitter]

\* line 35 resumed: the progressive delay has elapsed, the jitter delay starts
AfterDelay(t, jitter) ==
    [t EXCEPT !.pc = "jitter", !.timer = jitter,
              !.log = Append(@, [ev |-> "delay", ms |-> t.timer])]

\* line 42 resumed: the jitter delay has elapsed, the request is issued
AfterJitter(t) ==
    [t EXCEPT !.pc = "fetch", !.timer = 0,
              !.log = @ \o << [ev |-> "jitter"],
                              [ev |-> "request", profile |-> FetchProfile(t.attempt)] >>]

\* line 58
IsErrorStatus(status) == status >= 400

\* an extraction failure ends the scrape at once, like a non-retryable error
AfterFetchParseTerminal(t, res, jitter) ==
    IF ~res.ok
    THEN Catch(t, res.message, jitter)
    ELSE IF IsErrorStatus(res.status)
         THEN Catch(t, HttpErrorMsg(res.status, res.statusText), jitter)
         ELSE IF ExtractThrows(res.data)
              THEN Throw([t EXCEPT !.lastError = ExtractErrorMsg])
              ELSE Return(t, ExtractAll(res.data))

\* lines 46-102 resumed: axios.get has settled with `res`
AfterFetch(t, res, jitter) ==
    IF ~res.ok
    THEN Catch(t, res.message, jitter)
    ELSE IF IsErrorStatus(res.status)
         THEN Catch(t, HttpErrorMsg(res.status, res.statusText), jitter)
         ELSE IF ExtractThrows(res.data)
              THEN Catch(t, ExtractErrorMsg, jitter)
              ELSE Return(t, ExtractAll(res.data))

---------------------------------------------------------------------------
(* PUT handler *)

RECURSIVE ChunkLoop(_, _, _)
ChunkLoop(urls, i, acc) ==
    IF i < Len(urls)
    THEN ChunkLoop(urls, i + concurrencyLimit,
                   Append(acc, slice(urls, i, i + concurrencyLimit)))
    ELSE acc

\* the whole list as one chunk
MakeChunksWhole(urls) == IF urls = <<>> THEN <<>> ELSE <<urls>>

\* lines 82-86
MakeChunks(urls) == ChunkLoop(urls, 0, <<>>)

\* every pipeline of a chunk starts at the attempt a counter shared by the
\* chunk has reached
StartChunkSharedCounter(chunk, jitters) ==
    [k \in 1..Len(chunk) |-> EnterAttempt(NewTask(chunk[k]), k, jitters[k])]

\* chunk.map(async url => ...): every pipeline runs up to its first await
StartChunk(chunk, jitters) ==
    [k \in 1..Len(chunk) |-> EnterAttempt(NewTask(chunk[k]), 1, jitters[k])]

Pending(t) == t.result = <<>>

\* Promise.race in place of Promise.all: the first promise to settle decides
PromiseRace(ts) == \E k \in 1..Len(ts) : ~Pending(ts[k]) /\ ts[k].result[1].state = "fulfilled"

\* Promise.all(chunkPromises) is fulfilled: every promise is
PromiseAll(ts) == \A k \in 1..Len(ts) : ~Pending(ts[k]) /\ ts[k].result[1].state = "fulfilled"

\* Promise.all(chunkPromises) is rejected: some promise is
PromiseAllRejected(ts) ==
    \E k \in 1..Len(ts) : ~Pending(ts[k]) /\ ts[k].result[1].state = "rejected"

\* the values the settled promises were fulfilled with, in slot order
ChunkResults(ts) ==
    LET settled == SelectSeq(ts, LAMBDA t : ~Pending(t)) IN
    [k \in 1..Len(settled) |-> settled[k].result[1].value]

\* results.unshift(...chunkResults)
Unshift(res, chunkResults) == chunkResults \o res

\* results.push(...chunkResults)
Push(res, chunkResults) == res \o chunkResults

Respond(status, payload) == [status |-> status, body |-> payload]

\* the pipelines that have started and not finished
InFlight == {k \in 1..Len(tasks) : Pending(tasks[k])}

\* the axios.get calls a pipeline has made
Requests(t) == {n \in 1..Len(t.log) : t.log[n].ev = "request"}

---------------------------------------------------------------------------
(* Requests *)

Repeat(url, n) == [k \in 1..n |-> url]

Mixed(n, j, u, b) == [k \in 1..n |-> IF k = j THEN u ELSE b]

\* Batches of up to MaxUrls entries: any URL at any position among
\* malformed ones, any URL first or last among reachable ones; and the
\* lengths at the limit of 50.
Batches ==
    {Mixed(n, j, u, NoSchemeUrl) : n \in 0..MaxUrls, j \in 1..MaxUrls, u \in Urls}
    \cup UNION {{Mixed(n, j, u, UpUrl) : j \in {1, n}, u \in Urls} : n \in 0..MaxUrls}
    \cup {Repeat(UpUrl, MaxBatchUrls), Repeat(UpUrl, MaxBatchUrls + 1)}

Bodies ==
    {[kind |-> "array", urls |-> b] : b \in Batches}
    \cup {[kind |-> "missing", urls |-> <<>>], [kind |-> "notArray", urls |-> <<>>]}

\* no single scrape is being handled
NoSingle ==
    [kind |-> "none", url |-> <<>>, phase |-> "idle", bodyUsed |-> FALSE,
     task |-> <<>>, response |-> Respond(0, <<>>), raised |-> FALSE]

\* no pure function is being called
NoCall == [op |-> "none", arg |-> <<>>, ret |-> <<>>, done |-> FALSE]

Init ==
    /\ body \in Bodies
    /\ phase = "received"
    /\ chunks = <<>>
    /\ cur = 0
    /\ tasks = <<>>
    /\ results = <<>>
    /\ response = Respond(0, <<>>)
    /\ single = NoSingle
    /\ fn = NoCall

\* the body has more entries than a batch may have
TooManyFrom50(urls) == Len(urls) >= MaxBatchUrls

\* line 70: urls.length > 50
TooMany(urls) == Len(urls) > MaxBatchUrls

\* PUT up to its first suspension (lines 59-108)
PUT ==
    /\ phase = "received"
    /\ IF body.kind # "array"
       THEN /\ response' = Respond(400, [error |-> "URLs array is required"])
            /\ phase' = "responded"
            /\ UNCHANGED <<chunks, cur, tasks, results>>
       ELSE IF TooMany(body.urls)
       THEN /\ response' = Respond(400, [error |-> "Maximum 50 URLs allowed per batch"])
            /\ phase' = "responded"
            /\ UNCHANGED <<chunks, cur, tasks, results>>
       ELSE LET cs == MakeChunks(body.urls) IN
            IF cs = <<>>
            THEN /\ response' = Respond(200, [results |-> results])
                 /\ phase' = "responded"
                 /\ chunks' = cs
                 /\ UNCHANGED <<cur, tasks, results>>
            ELSE \E js \in [1..Len(cs[1]) -> JitterSamples] :
                 /\ chunks' = cs
                 /\ cur' = 1
                 /\ tasks' = StartChunk(cs[1], js)
                 /\ phase' = "running"
                 /\ UNCHANGED <<results, response>>
    /\ UNCHANGED <<body, single, fn>>

DelayElapsed(k) ==
    /\ phase = "running"
    /\ k \in 1..Len(tasks)
    /\ tasks[k].pc = "delay"
    /\ \E j \in JitterSamples : tasks' = [tasks EXCEPT ![k] = AfterDelay(@, j)]
    /\ UNCHANGED <<body, phase, chunks, cur, results, response, single, fn>>

JitterElapsed(k) ==
    /\ phase = "running"
    /\ k \in 1..Len(tasks)
    /\ tasks[k].pc = "jitter"
    /\ tasks' = [tasks EXCEPT ![k] = AfterJitter(@)]
    /\ UNCHANGED <<body, phase, chunks, cur, results, response, single, fn>>

FetchSettled(k) ==
    /\ phase = "running"
    /\ k \in 1..Len(tasks)
    /\ tasks[k].pc = "fetch"
    /\ \E raw \in NetOutcomes(Host(tasks[k].url)) :
         LET res == axiosGet(tasks[k].url, FetchProfile(tasks[k].attempt), raw) IN
         \* the jitter of a next attempt is drawn later, at line 42, so the
         \* value handed over here is not used when attempt > 1
         tasks' = [tasks EXCEPT ![k] = AfterFetch(@, res, 500)]
    /\ UNCHANGED <<body, phase, chunks, cur, results, response, single, fn>>

\* line 108 resumed: the chunk's Promise.all has settled (lines 109-118)
ChunkDone ==
    /\ phase = "running"
    /\ PromiseAll(tasks) \/ PromiseAllRejected(tasks)
    /\ IF PromiseAllRejected(tasks)
       THEN /\ response' = Respond(500, [error |-> "Batch scraping failed"])
            /\ phase' = "responded"
            /\ UNCHANGED <<cur, tasks, results>>
       ELSE /\ results' = Push(results, ChunkResults(tasks))
            /\ IF cur < Len(chunks)
               THEN \E js \in [1..Len(chunks[cur + 1]) -> JitterSamples] :
                    /\ cur' = cur + 1
                    /\ tasks' = StartChunk(chunks[cur + 1], js)
                    /\ UNCHANGED <<phase, response>>
               ELSE /\ response' = Respond(200, [results |-> results'])
                    /\ phase' = "responded"
                    /\ UNCHANGED <<cur, tasks>>
    /\ UNCHANGED <<body, chunks, single, fn>>

Next ==
    \/ PUT
    \/ \E k \in 1..concurrencyLimit : DelayElapsed(k)
    \/ \E k \in 1..concurrencyLimit : JitterElapsed(k)
    \/ \E k \in 1..concurrencyLimit : FetchSettled(k)
    \/ ChunkDone

Spec == Init /\ [][Next]_vars

---------------------------------------------------------------------------
(* POST handler: one scrape per request *)

\* request.json(): the body of a request can be read once; a second read,
\* or a body that is not JSON, rejects
RequestJson(s) ==
    IF s.bodyUsed
    THEN [ok |-> FALSE, url |-> <<>>, message |-> <<"Body", "is", "unusable">>]
    ELSE IF s.kind = "invalid"
         THEN [ok |-> FALSE, url |-> <<>>, message |-> <<"Unexpected", "token">>]
         ELSE [ok |-> TRUE, url |-> s.url, message |-> <<>>]

\* return NextResponse.json(payload, { status })
PostRespond(s, status, payload) ==
    [s EXCEPT !.phase = "responded", !.response = Respond(status, payload)]

\* the handler's promise rejects: the framework answers 500 by itself
PostRaise(s, message) ==
    [s EXCEPT !.phase = "responded", !.raised = TRUE,
              !.response = Respond(500, [unhandled |-> message])]

\* lines 41-52: the catch block, which reads the body again for the url
PostCatch(s, message) ==
    LET again == RequestJson(s) IN
    IF ~again.ok
    THEN PostRaise(s, again.message)
    ELSE PostRespond(s, 500,
             [url |-> IF again.url = <<>> THEN <<"unknown">> ELSE again.url,
              success |-> FALSE, error |-> message])

\* line 31 resumed: scrapeContactInfo has returned or thrown (lines 33-52)
PostResume(s) ==
    LET t == s.task[1] IN
    IF Pending(t) THEN s
    ELSE IF t.out[1].ok
         THEN PostRespond(s, 200, [url |-> t.url, success |-> TRUE, data |-> t.out[1].data])
         ELSE PostCatch(s, t.out[1].message)

\* lines 10-31: the handler up to its await of the scrape
PostStart(s, jitter) ==
    LET parsed == RequestJson(s)
        s1 == [s EXCEPT !.bodyUsed = TRUE] IN
    IF ~parsed.ok THEN PostCatch(s1, parsed.message)
    ELSE IF parsed.url = <<>>
         THEN PostRespond(s1, 400, [error |-> "URL is required"])
    ELSE IF NewUrlThrows(parsed.url)
         THEN PostRespond(s1, 400, [error |-> "Invalid URL format"])
    ELSE PostResume([s1 EXCEPT !.phase = "running",
                               !.task = <<EnterAttempt(NewTask(parsed.url), 1, jitter)>>])

\* the single-scrape requests: a url, no url, or a body that is not JSON
Singles ==
    {[NoSingle EXCEPT !.kind = "json", !.url = u, !.phase = "received"] :
        u \in Urls \cup {<<>>}}
    \cup {[NoSingle EXCEPT !.kind = "invalid", !.phase = "received"]}

POST ==
    /\ single.phase = "received"
    /\ \E j \in JitterSamples : single' = PostStart(single, j)
    /\ UNCHANGED <<batchVars, fn>>

PostDelayElapsed ==
    /\ single.phase = "running"
    /\ single.task[1].pc = "delay"
    /\ \E j \in JitterSamples :
         single' = [single EXCEPT !.task = <<AfterDelay(single.task[1], j)>>]
    /\ UNCHANGED <<batchVars, fn>>

PostJitterElapsed ==
    /\ single.phase = "running"
    /\ single.task[1].pc = "jitter"
    /\ single' = [single EXCEPT !.task = <<AfterJitter(single.task[1])>>]
    /\ UNCHANGED <<batchVars, fn>>

PostFetchSettled ==
    /\ single.phase = "running"
    /\ single.task[1].pc = "fetch"
    /\ \E raw \in NetOutcomes(Host(single.task[1].url)) :
         LET t == single.task[1]
             res == axiosGet(t.url, FetchProfile(t.attempt), raw) IN
         single' = PostResume([single EXCEPT !.task = <<AfterFetch(t, res, 500)>>])
    /\ UNCHANGED <<batchVars, fn>>

\* no batch request is being handled
NoBatch ==
    /\ body = [kind |-> "none", urls |-> <<>>]
    /\ phase = "idle"
    /\ chunks = <<>>
    /\ cur = 0
    /\ tasks = <<>>
    /\ results = <<>>
    /\ response = Respond(0, <<>>)

InitPost ==
    /\ NoBatch
    /\ single \in Singles
    /\ fn = NoCall

NextPost ==
    \/ POST
    \/ PostDelayElapsed
    \/ PostJitterElapsed
    \/ PostFetchSettled

SpecPost == InitPost /\ [][NextPost]_vars

---------------------------------------------------------------------------
(* The server handling a batch request and a single scrape together: the
   handlers are independent async functions on one event loop *)

ServerBodies ==
    {[kind |-> "array", urls |-> b] :
        b \in {Repeat(UpUrl, 5), Mixed(6, 6, ClientErrUrl, UpUrl)}}

InitServer ==
    /\ body \in ServerBodies
    /\ phase = "received"
    /\ chunks = <<>>
    /\ cur = 0
    /\ tasks = <<>>
    /\ results = <<>>
    /\ response = Respond(0, <<>>)
    /\ single \in {s \in Singles : s.url \in {UpUrl, UnreachUrl, NoSchemeUrl}}
    /\ fn = NoCall

NextServer ==
    \/ Next
    \/ NextPost

SpecServer == InitServer /\ [][NextServer]_vars

---------------------------------------------------------------------------
(* Either request alone, with the scheduling the event loop gives: a timer
   that is due fires, a request that is out settles, a continuation that is
   ready runs *)

LiveBodies ==
    {[kind |-> "array", urls |-> Mixed(n, j, u, NoSchemeUrl)] :
        n \in 0..MaxUrls, j \in 1..MaxUrls, u \in Urls}
    \cup {[kind |-> "array", urls |-> <<ClientErrUrl, UnreachUrl>>]}
    \cup {[kind |-> "missing", urls |-> <<>>]}

InitLive ==
    \/ /\ body \in LiveBodies
       /\ phase = "received"
       /\ chunks = <<>>
       /\ cur = 0
       /\ tasks = <<>>
       /\ results = <<>>
       /\ response = Respond(0, <<>>)
       /\ single = NoSingle
       /\ fn = NoCall
    \/ InitPost

Fairness ==
    /\ WF_vars(PUT)
    /\ WF_vars(ChunkDone)
    /\ \A k \in 1..concurrencyLimit :
          /\ WF_vars(DelayElapsed(k))
          /\ WF_vars(JitterElapsed(k))
          /\ WF_vars(FetchSettled(k))
    /\ WF_vars(POST)
    /\ WF_vars(PostDelayElapsed)
    /\ WF_vars(PostJitterElapsed)
    /\ WF_vars(PostFetchSettled)

LiveSpec == InitLive /\ [][NextServer]_vars /\ Fairness

---------------------------------------------------------------------------
(* The helpers of the extraction engine and of the CSV glue, each called on
   its own.  Strings are sequences of characters. *)

Digits == {"0", "1", "2", "3", "4", "5", "6", "7", "8", "9"}

startsWith(str, prefix) ==
    Len(str) >= Len(prefix) /\ SubSeq(str, 1, Len(prefix)) = prefix

\* str.substring(from), from counted from 0
substring(str, from) == SubSeq(str, from + 1, Len(str))

\* phone.replace(/[^\d+]/g, '')
cleanPhone(phone) == SelectSeq(phone, LAMBDA c : c \in Digits \/ c = "+")

\* a national number prefixed without dropping its leading 0
normalizeKeepingZero(phone) ==
    LET clean == cleanPhone(phone) IN
    IF startsWith(clean, <<"+", "3", "5", "8">>) THEN clean
    ELSE IF startsWith(clean, <<"0">>) THEN <<"+", "3", "5", "8">> \o clean
    ELSE phone

\* scraper.ts lines 572-584
normalizePhoneNumber(phone) ==
    LET clean == cleanPhone(phone) IN
    IF startsWith(clean, <<"+", "3", "5", "8">>) THEN clean
    ELSE IF startsWith(clean, <<"0">>) THEN <<"+", "3", "5", "8">> \o substring(clean, 1)
    ELSE phone

MaxPhoneLen == 5
PhoneChars == {"+", "0", "3", "5", "8", " "}
Phones == UNION {[1..n -> PhoneChars] : n \in 0..MaxPhoneLen}

Upper == <<"A", "B", "C", "D", "E", "F", "G", "H", "I", "J", "K", "L", "M", "N",
           "O", "P", "Q", "R", "S", "T", "U", "V", "W", "X", "Y", "Z", "Ä", "Ö", "Å">>
Lower == <<"a", "b", "c", "d", "e", "f", "g", "h", "i", "j", "k", "l", "m", "n",
           "o", "p", "q", "r", "s", "t", "u", "v", "w", "x", "y", "z", "ä", "ö", "å">>

toLowerChar(c) ==
    IF \E i \in 1..Len(Upper) : Upper[i] = c
    THEN Lower[CHOOSE i \in 1..Len(Upper) : Upper[i] = c]
    ELSE c

\* String.prototype.toLowerCase
toLowerCase(str) == [i \in 1..Len(str) |-> toLowerChar(str[i])]

\* the comparison of names without lower-casing
sameNameExactly(a, b) == a.name = b.name

\* line 385: existing.name.toLowerCase() === contact.name.toLowerCase()
sameName(a, b) == toLowerCase(a.name) = toLowerCase(b.name)

\* lines 383-391: contacts.forEach over the list, from index i on
RECURSIVE forEachContact(_, _, _)
forEachContact(contacts, i, uniqueContacts) ==
    IF i > Len(contacts) THEN uniqueContacts
    ELSE LET isDuplicate ==
                 \E k \in 1..Len(uniqueContacts) : sameName(uniqueContacts[k], contacts[i])
         IN  forEachContact(contacts, i + 1,
                 IF isDuplicate THEN uniqueContacts
                 ELSE Append(uniqueContacts, contacts[i]))

\* scraper.ts lines 380-394
removeDuplicateContacts(contacts) == slice(forEachContact(contacts, 1, <<>>), 0, 10)

MaxContacts == 12

Contact(name, title, phone, email) ==
    [name |-> name, title |-> title, phone |-> phone, email |-> email]

\* the k-th of a list of contacts with different names
BaseContact(k) == Contact(<<Upper[k], "x">>, "johtaja", "+358401", "a@x.fi")

\* contacts whose names repeat a name of the list, in the same or another
\* case, with other fields; and one whose name is new
OtherContacts ==
    {Contact(n, t, ph, "b@x.fi") :
        n \in {<<"A", "x">>, <<"a", "X">>, <<"B", "x">>, <<"b", "x">>,
               <<"L", "X">>, <<"Ä", "x">>, <<"ä", "x">>},
        t \in {"johtaja", "Tuntematon"},
        ph \in {"+358401", "+358500"}}

\* the contacts found in the regions of a page, in encounter order
ContactLists ==
    {[k \in 1..n |-> IF k = j THEN c ELSE BaseContact(k)] :
        n \in 0..MaxContacts, j \in 1..MaxContacts, c \in OtherContacts}
    \cup UNION {[1..n -> {c \in OtherContacts : c.title = "johtaja" \/ c.phone = "+358500"}] : n \in 0..2}

(* CSV export and import (csvUtils.ts).  A text is a sequence of
   characters; a word that holds none of the characters CSV gives a meaning
   to (comma, quote, newline, space) stands for its characters. *)

RECURSIVE join(_, _)
\* Array.prototype.join
join(strs, sep) ==
    IF strs = <<>> THEN <<>>
    ELSE IF Len(strs) = 1 THEN strs[1]
    ELSE strs[1] \o sep \o join(Tail(strs), sep)

\* String.prototype.includes for one character
includesChar(str, c) == \E i \in 1..Len(str) : str[i] = c

\* quotes written as they are
quotesAsTheyAre(value) == value

RECURSIVE doubleQuotes(_)
\* value.replace(/"/g, '""')
doubleQuotes(value) ==
    IF value = <<>> THEN <<>>
    ELSE (IF Head(value) = "\"" THEN <<"\"", "\"">> ELSE <<Head(value)>>)
         \o doubleQuotes(Tail(value))

\* values written as they are
escapeNothing(value) == value

\* csvUtils.ts lines 97-102
escapeCSVValue(value) ==
    IF includesChar(value, ",") \/ includesChar(value, "\"") \/ includesChar(value, "\n")
    THEN <<"\"">> \o doubleQuotes(value) \o <<"\"">>
    ELSE value

\* a || b on strings
OrElse(a, b) == IF a = <<>> THEN b ELSE a

\* lines 47-78: the rows one result gives
RowsOfResult(result) ==
    IF result.success /\ result.data # <<>>
    THEN LET data == result.data[1] IN
         IF Len(data.contacts) > 0
         THEN [k \in 1..Len(data.contacts) |->
                  <<result.url, data.contacts[k].name, data.contacts[k].title,
                    data.contacts[k].phone, data.contacts[k].email, <<>>>>]
         ELSE << <<result.url,
                   join([k \in 1..Len(data.people) |-> data.people[k].name], <<";", " ">>),
                   join([k \in 1..Len(data.people) |-> data.people[k].title], <<";", " ">>),
                   join(data.phoneNumbers, <<";", " ">>),
                   join(data.emailAddresses, <<";", " ">>),
                   <<>>>> >>
    ELSE << <<result.url, <<>>, <<>>, <<>>, <<>>,
              OrElse(result.error, <<"Unknown", " ", "error">>)>> >>

RECURSIVE RowsOfResults(_)
RowsOfResults(scraped) ==
    IF scraped = <<>> THEN <<>>
    ELSE RowsOfResult(Head(scraped)) \o RowsOfResults(Tail(scraped))

csvHeaders == <<<<"URL">>, <<"Name">>, <<"Title">>, <<"Phone">>, <<"Email">>, <<"Error">>>>

\* csvUtils.ts lines 42-90
createCSVFromResults(scraped) ==
    LET rows == RowsOfResults(scraped)
        escapedRows == [r \in 1..Len(rows) |->
                           [c \in 1..Len(rows[r]) |-> escapeCSVValue(rows[r][c])]]
    IN  join(<<join(csvHeaders, <<",">>)>>
             \o [r \in 1..Len(escapedRows) |-> join(escapedRows[r], <<",">>)],
             <<"\n">>)

\* the members of a set of positions, in ascending order
Ascending(S) ==
    [k \in 1..Cardinality(S) |->
        CHOOSE i \in S : Cardinality({j \in S : j < i}) = k - 1]

\* a quote opens or closes a quoted stretch, so a position is outside
\* quotes when an even number of quotes stands before it
outsideQuotes(text, i) ==
    Cardinality({j \in 1..(i - 1) : text[j] = "\""}) % 2 = 0

\* the pieces of a text between the separators `sep` that are outside quotes
splitOutsideQuotes(text, sep) ==
    LET at == Ascending({i \in 1..Len(text) : text[i] = sep /\ outsideQuotes(text, i)})
        from(k) == IF k = 1 THEN 1 ELSE at[k - 1] + 1
        to(k) == IF k > Len(at) THEN Len(text) ELSE at[k] - 1
    IN  [k \in 1..(Len(at) + 1) |-> SubSeq(text, from(k), to(k))]

RECURSIVE undoubleQuotes(_)
undoubleQuotes(value) ==
    IF value = <<>> THEN <<>>
    ELSE IF Len(value) >= 2 /\ value[1] = "\"" /\ value[2] = "\""
         THEN <<"\"">> \o undoubleQuotes(SubSeq(value, 3, Len(value)))
         ELSE <<Head(value)>> \o undoubleQuotes(Tail(value))

\* a quoted cell loses its quotes, and two quotes inside it stand for one
parseCell(cell) ==
    IF Len(cell) >= 2 /\ cell[1] = "\"" /\ cell[Len(cell)] = "\""
    THEN undoubleQuotes(SubSeq(cell, 2, Len(cell) - 1))
    ELSE cell

\* csv-parser: the text cut into lines at the newlines outside quotes (a
\* newline that ends the text starts no line) and each line into cells at
\* the commas outside quotes
csvLines(text) ==
    LET whole == IF text # <<>> /\ text[Len(text)] = "\n"
                 THEN SubSeq(text, 1, Len(text) - 1) ELSE text
        lines == IF text = <<>> THEN <<>> ELSE splitOutsideQuotes(whole, "\n")
    IN  [l \in 1..Len(lines) |->
            LET cells == splitOutsideQuotes(lines[l], ",") IN
            [c \in 1..Len(cells) |-> parseCell(cells[c])]]

\* the property keys JavaScript treats as array indices, with their values
IntegerKeys == {<<"0">>, <<"1">>, <<"2">>, <<"7">>}
IntegerValue(key) ==
    CASE key = <<"0">> -> 0 [] key = <<"1">> -> 1 [] key = <<"2">> -> 2 [] key = <<"7">> -> 7

\* the column whose cell Object.values(row)[0] is, for a row with `n` cells
\* keyed by the header cells: the own property keys of an object come with
\* the integer keys first, in ascending order, then the other keys in the
\* order they were first set; a cell beyond the header is keyed _<index>
FirstValueColumn(headers, n) ==
    LET key(k) == IF k <= Len(headers) THEN headers[k] ELSE <<"_", k>>
        cols == 1..n
        \* a key set twice keeps its place and takes the last value
        last(k) == CHOOSE m \in cols : key(m) = key(k) /\ \A l \in cols : key(l) = key(k) => l <= m
        ints == {k \in cols : key(k) \in IntegerKeys}
    IN  IF n = 0 THEN 0
        ELSE IF ints # {}
        THEN last(CHOOSE k \in ints : \A l \in ints : IntegerValue(key(k)) <= IntegerValue(key(l)))
        ELSE last(1)

\* String.prototype.trim
RECURSIVE trimStart(_)
trimStart(str) ==
    IF str # <<>> /\ Head(str) \in {" ", "\n"} THEN trimStart(Tail(str)) ELSE str
RECURSIVE trimEnd(_)
trimEnd(str) ==
    IF str # <<>> /\ str[Len(str)] \in {" ", "\n"}
    THEN trimEnd(SubSeq(str, 1, Len(str) - 1)) ELSE str
trim(str) == trimEnd(trimStart(str))

\* line 23: Object.values(row)[0], trimmed
firstColumnValue(headers, row) ==
    LET col == FirstValueColumn(headers, Len(row)) IN
    IF col = 0 THEN <<>> ELSE trim(row[col])

\* csvUtils.ts lines 14-35: the first line gives the header, every other
\* line a row; the 'data' handler (lines 21-27) keeps the first value of a
\* row when it is a well-formed URL
parseCSVUrls(csvContent) ==
    LET lines == csvLines(csvContent)
        values == [l \in 1..(Len(lines) - 1) |-> firstColumnValue(lines[1], lines[l + 1])]
    IN  SelectSeq(values, LAMBDA v : v # <<>> /\ isValidUrl(v))

MaxResults == 3

CommaUrl == <<"https", ":", "//", "up.fi", "/", "a", ",", "b">>

NoContacts ==
    [contacts |-> <<>>,
     phoneNumbers |-> <<<<"+358401">>, <<"+358500">>>>,
     emailAddresses |-> <<<<"a@x.fi">>>>,
     people |-> <<[name |-> <<"Matti", " ", "Esimerkki">>, title |-> <<"johtaja">>],
                  [name |-> <<"Liisa", " ", "Malli">>, title |-> <<"myynti">>]>>]

WithContacts(cs) ==
    [contacts |-> cs, phoneNumbers |-> <<>>, emailAddresses |-> <<>>, people |-> <<>>]

CsvContact(name) ==
    Contact(name, <<"johtaja">>, <<"+358401">>, <<>>)

Succeeded(url, data) == [url |-> url, success |-> TRUE, data |-> <<data>>, error |-> <<>>]
Failed(url, error) == [url |-> url, success |-> FALSE, data |-> <<>>, error |-> error]

\* results with no, one and two contacts, and failed results with a
\* well-formed and with a malformed url
ScrapingResults ==
    {Succeeded(UpUrl, NoContacts),
     Succeeded(FlakyUrl, WithContacts(<<CsvContact(<<"Matti", " ", "Esimerkki">>)>>)),
     Succeeded(CommaUrl, WithContacts(<<CsvContact(<<"Matti", " ", "\"", "Masa", "\"">>)>>)),
     Succeeded(ClientErrUrl, WithContacts(<<CsvContact(<<"Matti", " ", "Esimerkki">>),
                                           CsvContact(<<"Liisa", ",", " ", "Malli">>)>>)),
     Failed(UnreachUrl, <<"Failed", ",", " ", "after", "\n", "3">>),
     Failed(NoSchemeUrl, <<>>)}

ResultLists == UNION {[1..n -> ScrapingResults] : n \in 0..MaxResults}

(* CSV upload (POST /api/upload/csv) *)

MaxCsvUrls == 50
MaxFileSize == 5 * 1024 * 1024

endsWith(str, suffix) ==
    Len(str) >= Len(suffix)
    /\ SubSeq(str, Len(str) - Len(suffix) + 1, Len(str)) = suffix

\* the upload handler: the checks of the file, then the urls of its text
uploadPOST(form) ==
    IF ~form.hasFile
    THEN Respond(400, [error |-> "No file uploaded"])
    ELSE IF ~endsWith(form.name, <<".", "csv">>)
    THEN Respond(400, [error |-> "Only CSV files are allowed"])
    ELSE IF form.size > MaxFileSize
    THEN Respond(400, [error |-> "File size must be less than 5MB"])
    ELSE LET urls == parseCSVUrls(form.text) IN
         IF Len(urls) = 0
         THEN Respond(400, [error |-> "No valid URLs found in CSV file"])
         ELSE IF Len(urls) > MaxCsvUrls
         THEN Respond(400, [error |-> "Maximum 50 URLs allowed per CSV file"])
         ELSE Respond(200, [success |-> TRUE, urls |-> urls, count |-> Len(urls)])

\* a CSV text from the cells of its lines
CsvText(lines) ==
    join([l \in 1..Len(lines) |-> join(lines[l], <<",">>)], <<"\n">>)

\* header lines: the documented one, one with a second column, one whose
\* second column is named by a number, and a first line that is a url
HeaderLines ==
    {<<<<"URL">>>>, <<<<"URL">>, <<"Name">>>>, <<<<"Name">>, <<"7">>>>, <<UpUrl>>}

\* lines of a file: a url, a url between spaces, a value that is no url,
\* and a name followed by a url
DataLines ==
    {<<UpUrl, <<"Acme">>>>, <<<<" ">> \o FlakyUrl \o <<" ">>, <<"Acme">>>>,
     <<NoSchemeUrl, <<"Acme">>>>, <<<<"Acme">>, UnreachUrl>>}

\* the texts of the uploaded files: a header line, then n lines of which
\* the first or the last may differ from the others
CsvTexts ==
    {CsvText(<<h>> \o [k \in 1..n |-> IF k = j THEN d ELSE b]) :
        h \in HeaderLines, n \in {0, 1, 2, MaxCsvUrls, MaxCsvUrls + 1},
        j \in {0, 1}, d \in DataLines,
        b \in {<<UpUrl, <<"Acme">>>>, <<<<"Acme">>, UnreachUrl>>}}

Forms ==
    {[hasFile |-> TRUE, name |-> nm, size |-> sz, text |-> t] :
        nm \in {<<"urls", ".", "csv">>},
        sz \in {1024, MaxFileSize},
        t \in CsvTexts}
    \cup {[hasFile |-> TRUE, name |-> nm, size |-> sz,
           text |-> CsvText(<<<<<<"URL">>>>, <<UpUrl>>>>)] :
            nm \in {<<"urls", ".", "csv">>, <<"urls", ".", "csv", ".", "txt">>,
                    <<"urls", ".", "CSV">>, <<"csv">>},
            sz \in {1024, MaxFileSize, MaxFileSize + 1}}
    \cup {[hasFile |-> FALSE, name |-> <<>>, size |-> 0, text |-> <<>>]}

(* Extraction (scraper.ts lines 206-472).  A page is the list of the blocks
   of its body; a block is an element (or, with tag "none", the nodes that
   lie in the body itself) with its text nodes and links. *)

AZ == {Upper[i] : i \in 1..26}
az == {Lower[i] : i \in 1..26}
AZFi == {Upper[i] : i \in 1..Len(Upper)}
azFi == {Lower[i] : i \in 1..Len(Lower)}
WhiteSpace == {" ", "\n", "\t"}
WordChars == AZ \cup az \cup Digits \cup {"_"}
EmailLocal == AZ \cup az \cup Digits \cup {".", "_", "%", "+", "-"}
EmailDomain == AZ \cup az \cup Digits \cup {".", "-"}

\* the characters of a character class, the class named as the source
\* writes it between [ and ]; any other name is the one character it names
Class(name) ==
    CASE name = "A-ZÄÖÅ" -> AZFi
      [] name = "a-zäöå" -> azFi
      [] name = "A-Z" -> AZ
      [] name = "a-z" -> az
      [] name = "a-zA-Z" -> AZ \cup az
      [] name = "0-9" -> Digits
      [] name = "\\s" -> WhiteSpace
      [] name = "0-9\\s\\-\\." -> Digits \cup WhiteSpace \cup {"-", "."}
      [] name = "a-zA-Z0-9._%+-" -> EmailLocal
      [] name = "a-zA-Z0-9.-" -> EmailDomain
      [] OTHER -> {name}

\* the items of a regular expression: a character class with its least and
\* greatest number of repetitions (greatest -1: any number), \b and $
Rep(chars, min, max) == [kind |-> "set", chars |-> chars, min |-> min, max |-> max]
One(chars) == Rep(chars, 1, 1)
Opt(chars) == Rep(chars, 0, 1)
Plus(chars) == Rep(chars, 1, -1)
AtLeast(chars, n) == Rep(chars, n, -1)
Literal(str) == [i \in 1..Len(str) |-> One(str[i])]
WordBoundary == [kind |-> "b", chars |-> "", min |-> 0, max |-> 0]
EndOfInput == [kind |-> "end", chars |-> "", min |-> 0, max |-> 0]

Least(S) == CHOOSE n \in S : \A m \in S : n <= m
Greatest(S) == CHOOSE n \in S : \A m \in S : m <= n

isWordAt(text, pos) == pos >= 1 /\ pos <= Len(text) /\ text[pos] \in WordChars

\* the characters of the class that follow each other from `pos`, at most
\* `max` of them (max -1: any number)
runLength(text, pos, chars, max) ==
    Greatest({n \in 0..(Len(text) - pos + 1) :
                 /\ max < 0 \/ n <= max
                 /\ \A j \in 0..(n - 1) : text[pos + j] \in chars})

\* the items k.. of `re` matched at `pos`, a repetition taking as much as
\* the rest of the expression allows: the position after the match, or 0
RECURSIVE matchFrom(_, _, _, _)
afterGreatest(re, k, text, pos, ok) ==
    IF ok = {} THEN 0 ELSE matchFrom(re, k + 1, text, pos + Greatest(ok))

matchFrom(re, k, text, pos) ==
    IF k > Len(re) THEN pos
    ELSE IF re[k].kind = "b"
         THEN IF Cardinality({p \in {pos - 1, pos} : isWordAt(text, p)}) = 1
              THEN matchFrom(re, k + 1, text, pos) ELSE 0
    ELSE IF re[k].kind = "end"
         THEN IF pos = Len(text) + 1 THEN matchFrom(re, k + 1, text, pos) ELSE 0
    ELSE afterGreatest(re, k, text, pos,
             {n \in re[k].min..runLength(text, pos, Class(re[k].chars), re[k].max) :
                 matchFrom(re, k + 1, text, pos + n) # 0})

\* the first of the ends that is a position, or 0
firstNonZero(ends) ==
    IF \A a \in DOMAIN ends : ends[a] = 0 THEN 0
    ELSE ends[Least({a \in DOMAIN ends : ends[a] # 0})]

\* a pattern is a list of alternatives, tried in order at a position
matchAt(pattern, text, pos) ==
    firstNonZero([a \in 1..Len(pattern) |-> matchFrom(pattern[a], 1, text, pos)])

\* the leftmost start with a match, as <<first, last>>, or <<>>
leftmost(ends) ==
    IF \A i \in DOMAIN ends : ends[i] = 0 THEN <<>>
    ELSE <<Least({i \in DOMAIN ends : ends[i] # 0}),
           ends[Least({i \in DOMAIN ends : ends[i] # 0})] - 1>>

\* RegExp.prototype.exec from position `from`
exec(pattern, text, from) ==
    leftmost([i \in from..(Len(text) + 1) |-> matchAt(pattern, text, i)])

\* RegExp.prototype.test
test(pattern, text) == exec(pattern, text, 1) # <<>>

\* the text of the match m, as <<str>>, or <<>>
matched(text, m) == IF m = <<>> THEN <<>> ELSE <<SubSeq(text, m[1], m[2])>>

RECURSIVE matchAllFrom(_, _, _)
matchesAfter(pattern, text, m) ==
    IF m = <<>> THEN <<>>
    ELSE matched(text, m) \o matchAllFrom(pattern, text, m[2] + 1)

matchAllFrom(pattern, text, from) == matchesAfter(pattern, text, exec(pattern, text, from))

\* String.prototype.match: all the matches of a /g pattern, the first match
\* of another; <<>> stands for null
match(pattern, text) == matchAllFrom(pattern, text, 1)
matchFirst(pattern, text) == matched(text, exec(pattern, text, 1))

\* [A-ZÄÖÅ][a-zäöå]+ and [A-Z][a-z]+
CapFi == <<One("A-ZÄÖÅ"), Plus("a-zäöå")>>
Cap == <<One("A-Z"), Plus("a-z")>>

\* lines 299-303
namePatterns ==
    << << <<WordBoundary>> \o CapFi \o <<One(" ")>> \o CapFi
             \o <<One("\\s")>> \o CapFi \o <<WordBoundary>>,
          <<WordBoundary>> \o CapFi \o <<One(" ")>> \o CapFi \o <<WordBoundary>> >>,
       << <<WordBoundary>> \o Cap \o <<One(" ")>> \o Cap
             \o <<One("\\s")>> \o Cap \o <<WordBoundary>>,
          <<WordBoundary>> \o Cap \o <<One(" ")>> \o Cap \o <<WordBoundary>> >>,
       << <<WordBoundary>> \o CapFi \o <<Plus("\\s")>> \o CapFi \o <<WordBoundary>> >> >>

\* lines 318-329
titleKeywords ==
    <<
     <<"t", "o", "i", "m", "i", "t", "u", "s", "j", "o", "h", "t", "a", "j", "a">>,
     <<"t", "j">>,
     <<"c", "e", "o">>,
     <<"m", "a", "n", "a", "g", "i", "n", "g", " ", "d", "i", "r", "e", "c", "t", "o", "r">>,
     <<"m", "y", "y", "n", "t", "i", "p", "ä", "ä", "l", "l", "i", "k", "k", "ö">>,
     <<"s", "a", "l", "e", "s", " ", "m", "a", "n", "a", "g", "e", "r">>,
     <<"m", "y", "y", "n", "t", "i">>,
     <<"m", "a", "r", "k", "k", "i", "n", "o", "i", "n", "t", "i", "p", "ä", "ä", "l", "l", "i", "k", "k", "ö">>,
     <<"m", "a", "r", "k", "e", "t", "i", "n", "g", " ", "m", "a", "n", "a", "g", "e", "r">>,
     <<"m", "a", "r", "k", "k", "i", "n", "o", "i", "n", "t", "i">>,
     <<"a", "s", "i", "a", "k", "a", "s", "p", "a", "l", "v", "e", "l", "u", "p", "ä", "ä", "l", "l", "i", "k", "k", "ö">>,
     <<"c", "u", "s", "t", "o", "m", "e", "r", " ", "s", "e", "r", "v", "i", "c", "e", " ", "m", "a", "n", "a", "g", "e", "r">>,
     <<"h", "e", "n", "k", "i", "l", "ö", "s", "t", "ö", "p", "ä", "ä", "l", "l", "i", "k", "k", "ö">>,
     <<"h", "r", " ", "m", "a", "n", "a", "g", "e", "r">>,
     <<"h", "e", "n", "k", "i", "l", "ö", "s", "t", "ö">>,
     <<"t", "a", "l", "o", "u", "s", "p", "ä", "ä", "l", "l", "i", "k", "k", "ö">>,
     <<"f", "i", "n", "a", "n", "c", "i", "a", "l", " ", "m", "a", "n", "a", "g", "e", "r">>,
     <<"t", "a", "l", "o", "u", "s">>,
     <<"p", "r", "o", "j", "e", "k", "t", "i", "p", "ä", "ä", "l", "l", "i", "k", "k", "ö">>,
     <<"p", "r", "o", "j", "e", "c", "t", " ", "m", "a", "n", "a", "g", "e", "r">>,
     <<"p", "r", "o", "j", "e", "k", "t", "i">>,
     <<"t", "i", "i", "m", "i", "p", "ä", "ä", "l", "l", "i", "k", "k", "ö">>,
     <<"t", "e", "a", "m", " ", "l", "e", "a", "d", "e", "r">>,
     <<"t", "i", "i", "m", "i">>,
     <<"p", "ä", "ä", "l", "l", "i", "k", "k", "ö">>,
     <<"m", "a", "n", "a", "g", "e", "r">>,
     <<"j", "o", "h", "t", "a", "j", "a">>,
     <<"d", "i", "r", "e", "c", "t", "o", "r">>,
     <<"a", "s", "i", "a", "n", "t", "u", "n", "t", "i", "j", "a">>,
     <<"s", "p", "e", "c", "i", "a", "l", "i", "s", "t">>,
     <<"k", "o", "n", "s", "u", "l", "t", "t", "i">>,
     <<"c", "o", "n", "s", "u", "l", "t", "a", "n", "t">>,
     <<"k", "e", "h", "i", "t", "t", "ä", "j", "ä">>,
     <<"d", "e", "v", "e", "l", "o", "p", "e", "r">>,
     <<"s", "u", "u", "n", "n", "i", "t", "t", "e", "l", "i", "j", "a">>,
     <<"d", "e", "s", "i", "g", "n", "e", "r">>,
     <<"a", "v", "u", "s", "t", "a", "j", "a">>,
     <<"a", "s", "s", "i", "s", "t", "a", "n", "t">>,
     <<"k", "o", "o", "r", "d", "i", "n", "a", "a", "t", "t", "o", "r", "i">>,
     <<"c", "o", "o", "r", "d", "i", "n", "a", "t", "o", "r">>>>

\* lines 340-345 and 404-409
phonePatterns ==
    << << Literal(<<"+", "3", "5", "8">>)
             \o <<Opt("\\s"), Rep("0-9", 2, 2), Opt("\\s"), Rep("0-9", 3, 3),
                  Opt("\\s"), Rep("0-9", 4, 4)>> >>,
       << <<One("0"), Rep("0-9", 1, 2), Opt("\\s"), Rep("0-9", 3, 3),
            Opt("\\s"), Rep("0-9", 4, 4)>> >>,
       << <<One("0"), Rep("0-9", 1, 2), One("-"), Rep("0-9", 3, 3),
            One("-"), Rep("0-9", 4, 4)>> >>,
       << <<One("0"), Rep("0-9", 1, 2), One("."), Rep("0-9", 3, 3),
            One("."), Rep("0-9", 4, 4)>> >> >>

\* lines 356 and 446
emailPattern ==
    << <<Plus("a-zA-Z0-9._%+-"), One("@"), Plus("a-zA-Z0-9.-"), One("."),
         AtLeast("a-zA-Z", 2)>> >>

\* scraper.ts lines 589-592
isValidEmail(email) ==
    matchAt(<<emailPattern[1] \o <<EndOfInput>>>>, email, 1) # 0

\* scraper.ts lines 560-567
isValidPhoneNumber(phone) ==
    \/ matchAt(<< Literal(<<"+", "3", "5", "8">>) \o <<Rep("0-9", 8, 9), EndOfInput>>,
                  <<One("0"), Rep("0-9", 8, 9), EndOfInput>> >>,
               cleanPhone(phone), 1) # 0
    \/ matchAt(<< Literal(<<"+", "3", "5", "8">>)
                     \o <<Rep("0-9", 2, 2), Opt("\\s"), Rep("0-9", 3, 3),
                          Opt("\\s"), Rep("0-9", 4, 4), EndOfInput>>,
                  <<One("0"), Rep("0-9", 2, 2), Opt("\\s"), Rep("0-9", 3, 3),
                    Opt("\\s"), Rep("0-9", 4, 4), EndOfInput>> >>,
               phone, 1) # 0

\* the nodes of a block
TextNode(text) == [tag |-> "#text", href |-> <<>>, text |-> text]
Link(href, text) == [tag |-> "a", href |-> href, text |-> text]
Block(tag, cls, id, kids) == [tag |-> tag, cls |-> cls, id |-> id, kids |-> kids]

RECURSIVE concat(_)
concat(strs) == IF strs = <<>> THEN <<>> ELSE Head(strs) \o concat(Tail(strs))

\* Array.prototype.map
Map(Op(_), seq) == [k \in 1..Len(seq) |-> Op(seq[k])]

\* $(element).text() and $('body').text()
nodeText(node) == node.text
textOf(block) == concat(Map(nodeText, block.kids))
bodyText(page) == concat(Map(textOf, page))

\* the elements of the page that carry a tag, in document order
elements(page) == SelectSeq(page, LAMBDA b : b.tag # "none")

\* the href of every a[href^=prefix], in document order, after the prefix
linksOf(block, prefix) ==
    SelectSeq(block.kids, LAMBDA n : n.tag = "a" /\ startsWith(n.href, prefix))
hrefsAfter(page, prefix) ==
    Map(LAMBDA n : SubSeq(n.href, Len(prefix) + 1, Len(n.href)),
        concat([b \in 1..Len(page) |-> linksOf(page[b], prefix)]))

Selector(tag, kind, value) == [tag |-> tag, kind |-> kind, value |-> value]

\* lines 210-250
contactSelectors ==
    <<
     Selector("section", "contains", <<"c", "o", "n", "t", "a", "c", "t">>),
     Selector("section", "contains", <<"t", "e", "a", "m">>),
     Selector("section", "contains", <<"h", "e", "n", "k", "i", "l", "ö", "s", "t", "ö">>),
     Selector("section", "contains", <<"s", "t", "a", "f", "f">>),
     Selector("section", "contains", <<"e", "m", "p", "l", "o", "y", "e", "e">>),
     Selector("section", "contains", <<"p", "e", "r", "s", "o", "n">>),
     Selector("div", "contains", <<"c", "o", "n", "t", "a", "c", "t">>),
     Selector("div", "contains", <<"t", "e", "a", "m">>),
     Selector("div", "contains", <<"h", "e", "n", "k", "i", "l", "ö", "s", "t", "ö">>),
     Selector("div", "contains", <<"s", "t", "a", "f", "f">>),
     Selector("div", "contains", <<"e", "m", "p", "l", "o", "y", "e", "e">>),
     Selector("div", "contains", <<"p", "e", "r", "s", "o", "n">>),
     Selector("div", "contains", <<"y", "h", "t", "e", "y", "s", "t", "i", "e", "d", "o", "t">>),
     Selector("div", "contains", <<"h", "e", "n", "k", "i", "l", "ö", "k", "u", "n", "t", "a">>),
     Selector("", "class", <<"c", "o", "n", "t", "a", "c", "t", "-", "i", "n", "f", "o">>),
     Selector("", "class", <<"c", "o", "n", "t", "a", "c", "t", "-", "d", "e", "t", "a", "i", "l", "s">>),
     Selector("", "class", <<"t", "e", "a", "m", "-", "m", "e", "m", "b", "e", "r">>),
     Selector("", "class", <<"s", "t", "a", "f", "f", "-", "m", "e", "m", "b", "e", "r">>),
     Selector("", "class", <<"e", "m", "p", "l", "o", "y", "e", "e", "-", "c", "a", "r", "d">>),
     Selector("", "class", <<"p", "e", "r", "s", "o", "n", "-", "c", "a", "r", "d">>),
     Selector("", "class", <<"c", "o", "n", "t", "a", "c", "t", "-", "c", "a", "r", "d">>),
     Selector("", "class", <<"c", "o", "n", "t", "a", "c", "t", "-", "i", "t", "e", "m">>),
     Selector("", "class", <<"t", "e", "a", "m", "-", "i", "t", "e", "m">>),
     Selector("", "class", <<"s", "t", "a", "f", "f", "-", "i", "t", "e", "m">>),
     Selector("", "class", <<"p", "e", "r", "s", "o", "n", "-", "i", "t", "e", "m">>),
     Selector("", "id", <<"c", "o", "n", "t", "a", "c", "t">>),
     Selector("", "id", <<"t", "e", "a", "m">>),
     Selector("", "id", <<"h", "e", "n", "k", "i", "l", "ö", "s", "t", "ö">>),
     Selector("", "id", <<"h", "e", "n", "k", "i", "l", "ö", "k", "u", "n", "t", "a">>),
     Selector("", "id", <<"y", "h", "t", "e", "y", "s", "t", "i", "e", "d", "o", "t">>),
     Selector("", "attr", <<"d", "a", "t", "a", "-", "c", "o", "n", "t", "a", "c", "t">>),
     Selector("", "attr", <<"d", "a", "t", "a", "-", "t", "e", "a", "m", "-", "m", "e", "m", "b", "e", "r">>),
     Selector("", "attr", <<"d", "a", "t", "a", "-", "s", "t", "a", "f", "f", "-", "m", "e", "m", "b", "e", "r">>),
     Selector("footer", "tag", <<>>),
     Selector("address", "tag", <<>>),
     Selector("", "class", <<"f", "o", "o", "t", "e", "r", "-", "c", "o", "n", "t", "a", "c", "t">>),
     Selector("", "class", <<"c", "o", "n", "t", "a", "c", "t", "-", "s", "e", "c", "t", "i", "o", "n">>),
     Selector("", "class", <<"t", "e", "a", "m", "-", "s", "e", "c", "t", "i", "o", "n">>),
     Selector("", "class", <<"s", "t", "a", "f", "f", "-", "s", "e", "c", "t", "i", "o", "n">>)>>

\* line 262
cardSelectors ==
    <<Selector("", "class", <<"c", "o", "n", "t", "a", "c", "t", "-", "i", "t", "e", "m">>),
      Selector("", "class", <<"t", "e", "a", "m", "-", "i", "t", "e", "m">>),
      Selector("", "class", <<"p", "e", "r", "s", "o", "n">>),
      Selector("", "class", <<"s", "t", "a", "f", "f">>),
      Selector("", "class", <<"m", "e", "m", "b", "e", "r">>),
      Selector("", "class", <<"e", "m", "p", "l", "o", "y", "e", "e">>),
      Selector("", "class", <<"w", "o", "r", "k", "e", "r">>)>>

\* the blocks of the model carry a tag, a class and an id, no data attribute
matches(selector, block) ==
    /\ block.tag # "none"
    /\ CASE selector.kind = "contains" ->
                block.tag = selector.tag /\ Includes(block.cls, selector.value)
         [] selector.kind = "class" -> block.cls = selector.value
         [] selector.kind = "id" -> block.id = selector.value
         [] selector.kind = "tag" -> block.tag = selector.tag
         [] OTHER -> FALSE

\* the first of a list of results that is not empty, or <<>>
firstFound(found) ==
    IF \A p \in DOMAIN found : found[p] = <<>> THEN <<>>
    ELSE found[Least({p \in DOMAIN found : found[p] # <<>>})]

\* the email of a contact, in the case it was written in
contactEmailAsMatched(text) ==
    LET emailMatch == match(emailPattern, text) IN
    IF emailMatch # <<>> /\ isValidEmail(emailMatch[1]) THEN emailMatch[1] ELSE <<>>

\* lines 357-362
emailOf(emailMatch) ==
    IF emailMatch # <<>> /\ isValidEmail(emailMatch[1])
    THEN toLowerCase(emailMatch[1]) ELSE <<>>
contactEmail(text) == emailOf(match(emailPattern, text))

\* lines 305-312: the first pattern that matches gives the name
nameOf(m) == IF m = <<>> THEN <<>> ELSE trim(m[1])
contactName(text) ==
    nameOf(firstFound([p \in 1..Len(namePatterns) |-> matchFirst(namePatterns[p], text)]))

\* the keywords the text includes, the one that stands first in the text
\* taken alone
keywordsInTextOrder(text, keywords) ==
    LET at(k) == Least({i \in 1..(Len(text) - Len(keywords[k]) + 1) :
                         SubSeq(text, i, i + Len(keywords[k]) - 1) = keywords[k]}) IN
    [k \in 1..Len(keywords) |->
        IF /\ Includes(text, keywords[k])
           /\ \A j \in 1..Len(keywords) : Includes(text, keywords[j]) => at(k) <= at(j)
        THEN <<keywords[k]>> ELSE <<>>]

\* lines 331-338: the first keyword the lower-cased text includes
keywordsIn(text, keywords) ==
    [k \in 1..Len(keywords) |-> IF Includes(text, keywords[k]) THEN <<keywords[k]>> ELSE <<>>]
titleOf(found) ==
    IF found = <<>> THEN <<"T", "u", "n", "t", "e", "m", "a", "t", "o", "n">> ELSE found[1]
contactTitle(text) == titleOf(firstFound(keywordsIn(toLowerCase(text), titleKeywords)))

\* lines 348-355: the first match of the first pattern whose first match is
\* a valid number
validFirst(m) == IF m # <<>> /\ isValidPhoneNumber(m[1]) THEN <<m[1]>> ELSE <<>>
phoneOf(found) == IF found = <<>> THEN <<>> ELSE normalizePhoneNumber(found[1])
contactPhone(text) ==
    phoneOf(firstFound([p \in 1..Len(phonePatterns) |->
                           validFirst(match(phonePatterns[p], text))]))

\* scraper.ts lines 294-375; <<>> stands for null, <<c>> for the contact c
\* a contact only for a name with a phone number or an address
contactNamedWithContactInfo(name, text) ==
    IF name = <<>> \/ (contactPhone(text) = <<>> /\ contactEmail(text) = <<>>) THEN <<>>
    ELSE <<[name |-> name, title |-> contactTitle(text),
            phone |-> contactPhone(text), email |-> contactEmail(text)]>>

contactNamed(name, text) ==
    IF name = <<>> THEN <<>>
    ELSE <<Contact(name, contactTitle(text), contactPhone(text), contactEmail(text))>>
extractContactFromElement(block) == contactNamed(contactName(textOf(block)), textOf(block))

\* lines 275-277: hasName, hasPhone, hasEmail
regionTests ==
    << << <<WordBoundary>> \o CapFi \o <<One(" ")>> \o CapFi >>,
       << Literal(<<"+", "3", "5", "8">>) \o <<AtLeast("0-9\\s\\-\\.", 8)>>,
          <<One("0"), AtLeast("0-9\\s\\-\\.", 8)>> >>,
       emailPattern >>

\* lines 270-279: a region with a name and a phone number or an address
nameAndContactInfo(has) == has[1] /\ (has[2] \/ has[3])
hasNameAndContactInfo(text) ==
    nameAndContactInfo([r \in 1..Len(regionTests) |-> test(regionTests[r], text)])

\* lines 252-286: the contacts of the elements each selector matches, of
\* the cards and of the regions, found[e] being the contact of element e
contactsOf(els, found) ==
    concat([n \in 1..Len(contactSelectors) |->
               concat([e \in 1..Len(els) |->
                   IF matches(contactSelectors[n], els[e]) THEN found[e] ELSE <<>>])])
    \o concat([e \in 1..Len(els) |->
           IF \E n \in 1..Len(cardSelectors) : matches(cardSelectors[n], els[e])
           THEN found[e] ELSE <<>>])
    \o concat([e \in 1..Len(els) |->
           IF els[e].tag \in {"div", "section", "article"}
              /\ hasNameAndContactInfo(textOf(els[e]))
           THEN found[e] ELSE <<>>])

\* scraper.ts lines 206-289
extractGroupedContacts(page) ==
    removeDuplicateContacts(
        contactsOf(elements(page), Map(extractContactFromElement, elements(page))))

RECURSIVE addAll(_, _)
\* a Set filled in order: a value already in it is not added again
addAll(set, values) ==
    IF values = <<>> THEN set
    ELSE addAll(IF \E k \in 1..Len(set) : set[k] = Head(values)
                THEN set ELSE Append(set, Head(values)),
                Tail(values))

\* the valid numbers collected as they were matched
extractPhoneNumbersAsMatched(page) ==
    addAll(<<>>,
        SelectSeq(Map(trim, hrefsAfter(page, <<"t", "e", "l", ":">>))
                    \o concat([p \in 1..Len(phonePatterns) |->
                                  Map(trim, match(phonePatterns[p], bodyText(page)))]),
                  isValidPhoneNumber))

\* scraper.ts lines 400-437
extractPhoneNumbers(page) ==
    addAll(<<>>,
        Map(normalizePhoneNumber,
            SelectSeq(Map(trim, hrefsAfter(page, <<"t", "e", "l", ":">>))
                        \o concat([p \in 1..Len(phonePatterns) |->
                                      Map(trim, match(phonePatterns[p], bodyText(page)))]),
                      isValidPhoneNumber)))

\* the addresses collected in the case they were written in
extractEmailAddressesAsWritten(page) ==
    addAll(<<>>,
        SelectSeq(Map(trim, hrefsAfter(page, <<"m", "a", "i", "l", "t", "o", ":">>))
                    \o Map(trim, match(emailPattern, bodyText(page))),
                  isValidEmail))

\* scraper.ts lines 442-472
extractEmailAddresses(page) ==
    addAll(<<>>,
        Map(toLowerCase,
            SelectSeq(Map(trim, hrefsAfter(page, <<"m", "a", "i", "l", "t", "o", ":">>))
                        \o Map(trim, match(emailPattern, bodyText(page))),
                      isValidEmail)))

\* lines 498-511
peopleSelectors ==
    <<
     Selector("section", "contains", <<"c", "o", "n", "t", "a", "c", "t">>),
     Selector("section", "contains", <<"t", "e", "a", "m">>),
     Selector("section", "contains", <<"h", "e", "n", "k", "i", "l", "ö", "s", "t", "ö">>),
     Selector("div", "contains", <<"c", "o", "n", "t", "a", "c", "t">>),
     Selector("div", "contains", <<"t", "e", "a", "m">>),
     Selector("div", "contains", <<"h", "e", "n", "k", "i", "l", "ö", "s", "t", "ö">>),
     Selector("", "class", <<"c", "o", "n", "t", "a", "c", "t", "-", "i", "n", "f", "o">>),
     Selector("", "class", <<"t", "e", "a", "m", "-", "m", "e", "m", "b", "e", "r">>),
     Selector("", "class", <<"s", "t", "a", "f", "f", "-", "m", "e", "m", "b", "e", "r">>),
     Selector("", "id", <<"c", "o", "n", "t", "a", "c", "t">>),
     Selector("", "id", <<"t", "e", "a", "m">>),
     Selector("", "id", <<"h", "e", "n", "k", "i", "l", "ö", "s", "t", "ö">>)>>

\* line 517: \b[A-ZÄÖÅ][a-zäöå]+ [A-ZÄÖÅ][a-zäöå]+(?:\s[A-ZÄÖÅ][a-zäöå]+)?\b
peopleNamePattern ==
    << <<WordBoundary>> \o CapFi \o <<One(" ")>> \o CapFi
          \o <<One("\\s")>> \o CapFi \o <<WordBoundary>>,
       <<WordBoundary>> \o CapFi \o <<One(" ")>> \o CapFi \o <<WordBoundary>> >>

Person(name, title) == [name |-> name, title |-> title]

\* scraper.ts lines 548-555; <<>> stands for null
findAssociatedTitle(text, keywords) == firstFound(keywordsIn(text, keywords))

\* lines 521-532: a person for every name of a sensible length
peopleNamed(names, title) ==
    Map(LAMBDA name : Person(name, title),
        SelectSeq(names, LAMBDA name : Len(name) > 3 /\ Len(name) < 50))

\* lines 517-526 on the lower-cased text of a section
peopleIn(sectionText) ==
    peopleNamed(Map(trim, match(peopleNamePattern, sectionText)),
                titleOf(findAssociatedTitle(sectionText, titleKeywords)))

\* line 515
sectionPeople(block) == peopleIn(toLowerCase(textOf(block)))

\* lines 513-535: found[e] being the people of element e
peopleOf(els, found) ==
    concat([n \in 1..Len(peopleSelectors) |->
               concat([e \in 1..Len(els) |->
                   IF matches(peopleSelectors[n], els[e]) THEN found[e] ELSE <<>>])])

\* the members of a list at the positions S, in order
keepAt(seq, S) == Map(LAMBDA i : seq[i], Ascending(S))

\* lines 538-542
uniquePeople(people) ==
    slice(keepAt(people, {i \in 1..Len(people) :
                             \A j \in 1..(i - 1) : ~sameName(people[j], people[i])}),
          0, 10)

\* scraper.ts lines 478-543
extractPeople(page) ==
    uniquePeople(peopleOf(elements(page), Map(sectionPeople, elements(page))))

\* lines 64-70: the parts of the result the page gives
extractContactInfo(page) ==
    [contacts |-> extractGroupedContacts(page),
     phoneNumbers |-> extractPhoneNumbers(page),
     emailAddresses |-> extractEmailAddresses(page),
     people |-> extractPeople(page)]

\* the link and the sentence of the example page
ExampleLinkHref == <<"m", "a", "i", "l", "t", "o", ":", "I", "n", "f", "o", "@", "E", "x", "a", "m", "p", "l", "e", ".", "F", "I">>
ExampleAddress == <<"I", "n", "f", "o", "@", "E", "x", "a", "m", "p", "l", "e", ".", "F", "I">>
ExampleSentence ==
    <<"M", "a", "t", "t", "i", " ", "M", "e", "i", "k", "ä", "l", "ä", "i", "n", "e", "n", ",", " ", "T", "o", "i", "m", "i", "t", "u", "s", "j", "o", "h", "t", "a", "j", "a", ",", " ", "0", "4", "0", " ", "1", "2", "3", " ", "4", "5", "6", "7">>

\* pages that hold the link and the sentence: in the body itself or in an
\* element, the link with no text, with a word or with the address as its
\* text, before or after the sentence, with or without a space between
ExamplePages ==
    {<<Block(c.tag, c.cls, <<>>,
             IF linkFirst
             THEN <<Link(ExampleLinkHref, linkText), TextNode(gap \o ExampleSentence)>>
             ELSE <<TextNode(ExampleSentence \o gap), Link(ExampleLinkHref, linkText)>>)>> :
        c \in {[tag |-> "none", cls |-> <<>>], [tag |-> "div", cls |-> <<>>],
               [tag |-> "p", cls |-> <<>>],
               [tag |-> "section", cls |-> <<"c", "o", "n", "t", "a", "c", "t">>]},
        linkFirst \in BOOLEAN,
        linkText \in {<<>>, ExampleAddress, <<"E", "m", "a", "i", "l">>},
        gap \in {<<>>, <<" ">>}}

(* Regions: the text of a region names a person, a title, a phone number
   and an email address, each of them or none, set apart by ", " *)

PartNames == {<<>>, <<"M", "a", "t", "t", "i", " ", "M", "e", "i", "k", "ä", "l", "ä", "i", "n", "e", "n">>,
              <<"L", "i", "i", "s", "a", " ", "V", "i", "r", "t", "a", "n", "e", "n">>}
PartTitles == {<<>>, <<"s", "a", "l", "e", "s", " ", "m", "a", "n", "a", "g", "e", "r", " ", "a", "n", "d", " ", "C", "E", "O">>,
               <<"M", "y", "y", "n", "t", "i", "p", "ä", "ä", "l", "l", "i", "k", "k", "ö">>}
PartPhones == {<<>>, <<"0", "4", "0", " ", "1", "2", "3", " ", "4", "5", "6", "7">>,
               <<"+", "3", "5", "8", " ", "5", "0", " ", "1", "2", "3", " ", "4", "5", "6", "7">>,
               <<"+", "3", "5", "8", " ", "0", "4", " ", "0", "1", "2", " ", "3", "4", "5", "6">>}
PartEmails == {<<>>, <<"I", "n", "f", "o", "@", "E", "x", "a", "m", "p", "l", "e", ".", "F", "I">>,
               <<"l", "i", "i", "s", "a", "@", "f", "i", "r", "m", "a", ".", "f", "i">>}

Sentence(name, title, phone, email) ==
    join(SelectSeq(<<name, title, phone, email>>, LAMBDA part : part # <<>>), <<",", " ">>)

\* a region matched by the contact selectors ("contact"), a div without a
\* class ("div"), or text that lies in the body itself ("none")
Region(kind, text) ==
    Block(IF kind = "contact" THEN "section" ELSE kind,
          IF kind = "contact" THEN <<"c", "o", "n", "t", "a", "c", "t">> ELSE <<>>,
          <<>>, <<TextNode(text)>>)

\* pages of one region without a title, pages of one contact section with a
\* title, and pages of a contact section that names Matti Meikäläinen in
\* full followed by a second region
RegionPages ==
    {<<Region(kind, Sentence(name, <<>>, phone, email))>> :
        kind \in {"contact", "div", "none"}, name \in PartNames,
        phone \in PartPhones, email \in PartEmails}
    \cup {<<Region("contact", Sentence(name, title, <<>>, <<>>))>> :
             name \in PartNames, title \in PartTitles}
    \cup {<<Region("contact", Sentence(<<"M", "a", "t", "t", "i", " ", "M", "e", "i", "k", "ä", "l", "ä", "i", "n", "e", "n">>,
                                       <<"s", "a", "l", "e", "s", " ", "m", "a", "n", "a", "g", "e", "r", " ", "a", "n", "d", " ", "C", "E", "O">>,
                                       <<"0", "4", "0", " ", "1", "2", "3", " ", "4", "5", "6", "7">>,
                                       <<"I", "n", "f", "o", "@", "E", "x", "a", "m", "p", "l", "e", ".", "F", "I">>)),
            Region(kind, Sentence(name, <<>>, phone, email))>> :
             kind \in {"contact", "div"}, name \in PartNames,
             phone \in PartPhones, email \in PartEmails}

MailtoHrefs ==
    {<<"m", "a", "i", "l", "t", "o", ":", "I", "N", "F", "O", "@", "E", "X", "A", "M", "P", "L", "E", ".", "F", "I">>,
     <<"m", "a", "i", "l", "t", "o", ":", "i", "n", "f", "o", "@", "e", "x", "a", "m", "p", "l", "e", ".", "f", "i", "?", "s", "u", "b", "j", "e", "c", "t", "=", "H", "e", "i">>}
TelHrefs ==
    {<<"t", "e", "l", ":", "0", "4", "0", "1", "2", "3", "4", "5", "6", "7">>,
     <<"t", "e", "l", ":", "+", "3", "5", "8", " ", "4", "0", " ", "1", "2", "3", " ", "4", "5", "6", "7">>,
     <<"t", "e", "l", ":", "0", "9", " ", "1", "2", "3", " ", "4", "5", "6", "7">>,
     <<"t", "e", "l", ":", "1", "1", "2">>}

\* a div that holds a link and, after a space, a sentence
LinkPage(href, phone, email) ==
    <<Block("div", <<>>, <<>>,
            <<Link(href, <<>>),
              TextNode(<<" ">> \o Sentence(<<"M", "a", "t", "t", "i", " ", "M", "e", "i", "k", "ä", "l", "ä", "i", "n", "e", "n">>, <<>>, phone, email))>>)>>
LinkPages ==
    {LinkPage(href, <<>>, email) : href \in MailtoHrefs, email \in PartEmails}
    \cup {LinkPage(href, phone, <<>>) : href \in TelHrefs, phone \in PartPhones}

Call(op, arg) == [op |-> op, arg |-> arg, ret |-> <<>>, done |-> FALSE]
ReturnFrom(call, ret) == [call EXCEPT !.ret = ret, !.done = TRUE]

Calls ==
    {Call("normalizePhoneNumber", p) : p \in Phones}
    \cup {Call("removeDuplicateContacts", cs) : cs \in ContactLists}
    \cup {Call("exportThenParse", rs) : rs \in ResultLists}
    \cup {Call("createCSVFromResults", rs) : rs \in ResultLists}
    \cup {Call("uploadPOST", f) : f \in Forms}
    \cup {Call("extractContactInfo", pg) : pg \in ExamplePages}
    \cup {Call("extractFromRegions", pg) : pg \in RegionPages \cup LinkPages}

InitFn ==
    /\ NoBatch
    /\ single = NoSingle
    /\ fn \in Calls

CallNormalizePhoneNumber ==
    /\ fn.op = "normalizePhoneNumber" /\ ~fn.done
    /\ fn' = ReturnFrom(fn, normalizePhoneNumber(fn.arg))
    /\ UNCHANGED <<batchVars, single>>

CallRemoveDuplicateContacts ==
    /\ fn.op = "removeDuplicateContacts" /\ ~fn.done
    /\ fn' = ReturnFrom(fn, removeDuplicateContacts(fn.arg))
    /\ UNCHANGED <<batchVars, single>>

\* the results exported and the export parsed back for its urls
CallExportThenParse ==
    /\ fn.op = "exportThenParse" /\ ~fn.done
    /\ fn' = ReturnFrom(fn, parseCSVUrls(createCSVFromResults(fn.arg)))
    /\ UNCHANGED <<batchVars, single>>

CallCreateCSVFromResults ==
    /\ fn.op = "createCSVFromResults" /\ ~fn.done
    /\ fn' = ReturnFrom(fn, createCSVFromResults(fn.arg))
    /\ UNCHANGED <<batchVars, single>>

CallUploadPOST ==
    /\ fn.op = "uploadPOST" /\ ~fn.done
    /\ fn' = ReturnFrom(fn, uploadPOST(fn.arg))
    /\ UNCHANGED <<batchVars, single>>

CallExtractContactInfo ==
    /\ fn.op = "extractContactInfo" /\ ~fn.done
    /\ fn' = ReturnFrom(fn, extractContactInfo(fn.arg))
    /\ UNCHANGED <<batchVars, single>>

\* extractContactInfo on the pages of regions and of links
CallExtractFromRegions ==
    /\ fn.op = "extractFromRegions" /\ ~fn.done
    /\ fn' = ReturnFrom(fn, extractContactInfo(fn.arg))
    /\ UNCHANGED <<batchVars, single>>

NextFn ==
    \/ CallNormalizePhoneNumber
    \/ CallRemoveDuplicateContacts
    \/ CallExportThenParse
    \/ CallCreateCSVFromResults
    \/ CallUploadPOST
    \/ CallExtractContactInfo
    \/ CallExtractFromRegions

SpecFn == InitFn /\ [][NextFn]_vars

---------------------------------------------------------------------------
(* Properties *)

Done(t) == ~Pending(t)
TaskResult(t) == t.result[1].value
Accepted == body.kind = "array" /\ Len(body.urls) <= MaxBatchUrls
Answered == phase = "responded" /\ response.status = 200
Delays(t) ==
    LET ds == SelectSeq(t.log, LAMBDA e : e.ev = "delay") IN
    [n \in 1..Len(ds) |-> ds[n].ms]

\* C1: the response of an accepted batch of N urls holds exactly N results,
\* and the i-th result carries the i-th url, whatever order the pipelines
\* finished in and whether they succeeded or failed.
C1_ResultsFollowInput ==
    /\ (phase = "responded" /\ Accepted) =>
          /\ response.status = 200
          /\ Len(response.body.results) = Len(body.urls)
          /\ \A i \in 1..Len(body.urls) : response.body.results[i].url = body.urls[i]
    /\ phase = "running" =>
          /\ Len(results) <= Len(body.urls)
          /\ \A i \in 1..Len(results) : results[i].url = body.urls[i]

\* a two-chunk batch answered with a failed result at the front and
\* successful ones after it
C1_Witness ==
    /\ Answered
    /\ Len(body.urls) > concurrencyLimit
    /\ ~response.body.results[1].success
    /\ response.body.results[Len(body.urls)].success

\* C2: an error of one pipeline becomes the failed result of that url and
\* nothing else: the batch is never answered with a request-level error,
\* and the urls that can be scraped are reported as scraped.
C2_FailureStaysLocal ==
    /\ Accepted => response.status \notin {400, 500}
    /\ \A k \in 1..Len(tasks) :
          Done(tasks[k]) =>
            /\ tasks[k].result[1].state = "fulfilled"
            /\ TaskResult(tasks[k]).url = tasks[k].url
            /\ tasks[k].lastError = <<>> => TaskResult(tasks[k]).success
            /\ ~TaskResult(tasks[k]).success =>
                  /\ TaskResult(tasks[k]).error # <<>>
                  /\ Includes(TaskResult(tasks[k]).error, tasks[k].lastError)
    /\ Answered =>
          \A i \in 1..Len(body.urls) :
            /\ body.urls[i] = UpUrl => response.body.results[i].success
            /\ body.urls[i] \in BadUrls => ~response.body.results[i].success

\* a pipeline has failed on a fetch error while a sibling of its chunk is
\* still running
C2_Witness ==
    /\ phase = "running"
    /\ \E k, j \in 1..Len(tasks) :
          /\ Done(tasks[k]) /\ ~TaskResult(tasks[k]).success
          /\ Requests(tasks[k]) # {}
          /\ Pending(tasks[j])

\* C3: a scrape makes at most 3 requests.
C3_AtMostThreeRequests ==
    \A k \in 1..Len(tasks) : Cardinality(Requests(tasks[k])) <= 3

\* a scrape that has ended after its third request
C3_Witness ==
    \E k \in 1..Len(tasks) : Done(tasks[k]) /\ Cardinality(Requests(tasks[k])) = 3

\* the failures C4 lists, by the message the attempt fails with
InvalidInput(message) == message = InvalidUrlMsg
ClientError4(message) ==
    \E st \in {400, 401, 403, 404} : message = HttpErrorMsg(st, StatusText(st))
DnsOrRefused(message) ==
    Len(message) = 3 /\ message[2] \in {"ENOTFOUND", "ECONNREFUSED"}

\* C4: an attempt that fails with an invalid url, an HTTP 400, 401, 403 or
\* 404, ENOTFOUND or ECONNREFUSED is the last one: the scrape has ended, and
\* the requests made are those of the attempts up to it (none for an invalid
\* url), with nothing slept or requested after it.
C4_NonRetryableStops ==
    \A k \in 1..Len(tasks) :
      LET t == tasks[k] IN
      (InvalidInput(t.lastError) \/ ClientError4(t.lastError) \/ DnsOrRefused(t.lastError)) =>
        /\ Done(t)
        /\ ~TaskResult(t).success
        /\ IF InvalidInput(t.lastError)
           THEN t.log = <<>>
           ELSE /\ Cardinality(Requests(t)) = t.attempt
                /\ t.log[Len(t.log)].ev = "request"
                /\ t.log[Len(t.log)].profile = FetchProfile(t.attempt)

\* HTTP 403 at the first attempt: one request
C4_Witness ==
    \E k \in 1..Len(tasks) :
      /\ tasks[k].lastError = HttpErrorMsg(403, StatusText(403))
      /\ tasks[k].attempt = 1
      /\ Done(tasks[k])
      /\ Cardinality(Requests(tasks[k])) = 1

\* the message of the terminal failure
Exhausted(t) ==
    /\ ~TaskResult(t).success
    /\ TaskResult(t).error = FinalErrorMsg(t.url, t.lastError)

\* C5 as stated: a scrape of a well-formed url whose host cannot be reached
\* ends in failure after exactly 3 attempts, with the delays of 2000 ms and
\* 3000 ms before attempts 2 and 3.
C5_AsStated ==
    \A k \in 1..Len(tasks) :
      (tasks[k].url = UnreachUrl /\ Done(tasks[k])) =>
        /\ Exhausted(tasks[k])
        /\ tasks[k].attempt = 3
        /\ Cardinality(Requests(tasks[k])) = 3
        /\ Delays(tasks[k]) = <<2000, 3000>>

\* C5, amended: a scrape of a well-formed url whose host cannot be reached
\* ends in failure; after exactly 3 attempts, with the delays of 2000 ms and
\* 3000 ms before attempts 2 and 3, when no attempt failed with ENOTFOUND or
\* ECONNREFUSED, and at the first attempt that failed with one of these
\* otherwise.
C5_UnreachableHost ==
    \A k \in 1..Len(tasks) :
      LET t == tasks[k] IN
      (t.url = UnreachUrl /\ Done(t)) =>
        /\ Exhausted(t)
        /\ Cardinality(Requests(t)) = t.attempt
        /\ Delays(t) = SubSeq(<<2000, 3000>>, 1, t.attempt - 1)
        /\ ~DnsOrRefused(t.lastError) => t.attempt = 3

\* three timeouts or unreachable-host errors in a row
C5_Witness ==
    \E k \in 1..Len(tasks) :
      /\ tasks[k].url = UnreachUrl
      /\ Done(tasks[k])
      /\ ~DnsOrRefused(tasks[k].lastError)
      /\ Delays(tasks[k]) = <<2000, 3000>>

ClientErrorOther(message) ==
    \E st \in {405, 410, 429} : message = HttpErrorMsg(st, StatusText(st))

\* C6 as stated: after any response with a status in 400..499 the scrape has
\* ended.
C6_AsStated ==
    \A k \in 1..Len(tasks) :
      (ClientError4(tasks[k].lastError) \/ ClientErrorOther(tasks[k].lastError)) =>
        Done(tasks[k])

\* C6, amended: a response with status 400, 401, 403 or 404 ends the scrape
\* at that attempt; a response with another 4xx status (405, 410, 429) is
\* retried like a transient failure, and ends the scrape only as the third
\* attempt.
C6_ClientErrors ==
    \A k \in 1..Len(tasks) :
      LET t == tasks[k] IN
      /\ ClientError4(t.lastError) => Done(t) /\ Cardinality(Requests(t)) = t.attempt
      /\ ClientErrorOther(t.lastError) =>
            IF Done(t)
            THEN t.attempt = 3 /\ Cardinality(Requests(t)) = 3
            ELSE t.attempt > 1 /\ Cardinality(Requests(t)) >= t.attempt - 1

\* a retry under way after HTTP 429
C6_Witness ==
    \E k \in 1..Len(tasks) :
      /\ tasks[k].lastError = HttpErrorMsg(429, StatusText(429))
      /\ tasks[k].pc = "delay"
      /\ tasks[k].attempt = 2

\* C7: the terminal failure carries the last error's message and the number
\* of attempts made.
C7_AttemptsReported ==
    \A k \in 1..Len(tasks) :
      LET t == tasks[k] IN
      (Done(t) /\ ~TaskResult(t).success) =>
        TaskResult(t).error =
          <<"Failed", "to", "scrape">> \o t.url
            \o <<"after", NumStr(t.attempt), "attempts", ":">> \o t.lastError

\* C8: a url that does not parse fails at the first attempt with nothing
\* slept and nothing requested, and in a batch its entry is a failed result
\* beside the results of the other entries.
C8_InvalidUrlFailsAtOnce ==
    /\ \A k \in 1..Len(tasks) :
          LET t == tasks[k] IN
          t.url \in BadUrls =>
            /\ Done(t)
            /\ t.attempt = 1
            /\ t.log = <<>>
            /\ ~TaskResult(t).success
            /\ Includes(TaskResult(t).error, InvalidUrlMsg)
    /\ Answered =>
          /\ Len(response.body.results) = Len(body.urls)
          /\ \A i \in 1..Len(body.urls) :
                IF body.urls[i] \in BadUrls
                THEN /\ ~response.body.results[i].success
                     /\ Includes(response.body.results[i].error, InvalidUrlMsg)
                ELSE body.urls[i] = UpUrl => response.body.results[i].success

\* a malformed entry has failed and an entry after it is being fetched
C8_Witness ==
    \E k, j \in 1..Len(tasks) :
      /\ tasks[k].url \in BadUrls /\ Done(tasks[k])
      /\ tasks[j].url = UpUrl /\ tasks[j].pc = "fetch"

\* C9: at most 5 pipelines are in flight at any moment of a batch.
C9_AtMostFiveInFlight == Cardinality(InFlight) <= 5

\* a full chunk in flight, in a batch of more than one chunk
C9_Witness ==
    /\ Cardinality(InFlight) = 5
    /\ Len(chunks) > 1
    /\ \E k \in InFlight : tasks[k].pc = "fetch"

\* C10: the next chunk starts only when every pipeline of the current one
\* has finished; while one is pending neither the chunk index nor the
\* recorded results change, and results once recorded stay as they are.
C10_ChunkBarrier ==
    [][ /\ cur' # cur => \A k \in 1..Len(tasks) : Done(tasks[k])
        /\ InFlight # {} => cur' = cur /\ results' = results
        /\ Len(results') >= Len(results)
        /\ SubSeq(results', 1, Len(results)) = results
        /\ phase' = "running" => Len(results') = (cur' - 1) * concurrencyLimit ]_vars

\* the first chunk is held back by one pending pipeline
C10_Witness ==
    /\ cur = 1
    /\ Len(chunks) > 1
    /\ Cardinality(InFlight) = 1
    /\ results = <<>>

\* C11: a batch request whose urls is missing, is not an array or has more
\* than 50 entries is answered 400 and starts no pipeline; a batch of
\* exactly 50 entries is processed and answered 200 with 50 results.
C11_BatchSizeLimit ==
    /\ (body.kind # "array" \/ Len(body.urls) > 50) =>
          /\ tasks = <<>> /\ chunks = <<>> /\ cur = 0 /\ results = <<>>
          /\ phase = "responded" => response.status = 400
    /\ (body.kind = "array" /\ Len(body.urls) = 50) =>
          /\ phase = "running" => tasks # <<>>
          /\ phase = "responded" =>
                /\ response.status = 200
                /\ Len(response.body.results) = 50

\* a batch of 51 entries has been answered 400
C11_Witness ==
    /\ body.kind = "array" /\ Len(body.urls) = 51
    /\ phase = "responded" /\ response.status = 400
    /\ tasks = <<>>

\* the profiles of the requests a pipeline has issued, in order
ProfilesUsed(t) ==
    LET rs == SelectSeq(t.log, LAMBDA e : e.ev = "request") IN
    [n \in 1..Len(rs) |-> rs[n].profile]

\* a failure the retry policy describes as retryable: a timeout, a 5xx
\* answer or a transient network error
RetryableFailure(message) ==
    \/ Includes(message, <<"timeout">>)
    \/ Includes(message, <<"503">>)
    \/ Includes(message, <<"EHOSTUNREACH">>)

ScrapeRaised ==
    /\ single.task # <<>>
    /\ Done(single.task[1])
    /\ ~single.task[1].out[1].ok

\* C12: POST answers 200 with success:true when the scrape succeeds, 400
\* when url is missing or malformed, and, whenever the scrape raises, 500
\* with a body {url, success:false, error} carrying the requested url; the
\* failure path of the handler never raises itself.
C12_StructuredFailure ==
    single.phase = "responded" =>
        /\ ~single.raised
        /\ (single.kind = "json" /\ (single.url = <<>> \/ single.url \in BadUrls))
              => single.response.status = 400
        /\ (single.task # <<>> /\ single.task[1].out[1].ok) =>
              /\ single.response.status = 200
              /\ single.response.body.success
        /\ ScrapeRaised =>
              /\ single.response.status = 500
              /\ single.response.body =
                    [url |-> single.url, success |-> FALSE,
                     error |-> single.task[1].out[1].message]

\* the pipeline of the single-scrape request is running
SingleInFlight == single.task # <<>> /\ Pending(single.task[1])

\* the fetch+extract pipelines running on the server, over all requests
TotalInFlight == Cardinality(InFlight) + (IF SingleInFlight THEN 1 ELSE 0)

\* C13 as stated: over all the requests the server is handling together, at
\* most 5 pipelines run at the same time (a shared bound).
C13_SharedLimit == TotalInFlight <= 5

\* C13: the limit of 5 bounds the pipelines of one batch request; a single
\* scrape runs one pipeline of its own, whatever the batch requests are
\* doing, so the total is bounded per request only.
C13_PerRequestLimit ==
    /\ Cardinality(InFlight) <= 5
    /\ Len(tasks) <= 5
    /\ TotalInFlight <= 5 + 1
    /\ (single.phase = "running" /\ phase \in {"received", "running"}) => SingleInFlight

\* five pipelines of a batch and the pipeline of a single scrape are all
\* waiting for their responses
C13_Witness ==
    /\ Cardinality({k \in InFlight : tasks[k].pc = "fetch"}) = 5
    /\ SingleInFlight
    /\ single.task[1].pc = "fetch"

\* C19: when every request settles and every delay elapses, a batch request
\* is eventually answered and a single scrape eventually returns or raises
\* (its request is answered): neither the retry loop nor the chunk loop
\* runs for ever.
C19_Terminates ==
    /\ (phase = "received") ~> (phase = "responded")
    /\ (single.phase = "received") ~> (single.phase = "responded")
    /\ \A k \in 1..concurrencyLimit :
          (k \in InFlight) ~> (k \notin InFlight)

\* a batch of two chunks has been answered after a scrape used all three
\* attempts in the second chunk
C19_Witness ==
    /\ phase = "responded"
    /\ Len(chunks) = 2 /\ cur = 2
    /\ \E k \in 1..Len(tasks) : tasks[k].attempt = 3 /\ Len(ProfilesUsed(tasks[k])) = 3

\* the call of `op` has returned
Returned(op) == fn.op = op /\ fn.done

\* every character of str is a digit
AllDigits(str) == \A i \in 1..Len(str) : str[i] \in Digits

\* C15: normalizing a phone number twice gives what normalizing it once
\* gives; a number already of the form +358 followed by digits is returned
\* unchanged; a national number 0X...X becomes +358X...X, its leading 0
\* dropped.
C15_NormalizeIdempotent ==
    Returned("normalizePhoneNumber") =>
        LET p == fn.arg
            r == fn.ret IN
        /\ normalizePhoneNumber(r) = r
        /\ (startsWith(p, <<"+", "3", "5", "8">>) /\ AllDigits(SubSeq(p, 5, Len(p))))
              => r = p
        /\ (Len(p) >= 1 /\ p[1] = "0" /\ AllDigits(p))
              => r = <<"+", "3", "5", "8">> \o Tail(p)

\* the national number 0358 written with a space has been normalized
C15_Witness ==
    /\ Returned("normalizePhoneNumber")
    /\ fn.arg = <<"0", "3", " ", "5", "8">>
    /\ fn.ret = <<"+", "3", "5", "8", "3", "5", "8">>

\* the positions of a list of contacts whose name, ignoring case, did not
\* occur at an earlier position
FirstOccurrences(cs) ==
    {i \in 1..Len(cs) :
        \A j \in 1..(i - 1) : toLowerCase(cs[j].name) # toLowerCase(cs[i].name)}

\* the k-th smallest member of a set of positions
Kth(S, k) == CHOOSE i \in S : Cardinality({j \in S : j < i}) = k - 1

\* C14: the returned contacts hold no two names equal ignoring case and at
\* most 10 records; they are the first occurrences of the names, in
\* encounter order, each with the fields of the region met first.
C14_FirstOccurrenceWins ==
    Returned("removeDuplicateContacts") =>
        LET cs == fn.arg
            r == fn.ret
            first == FirstOccurrences(cs) IN
        /\ Len(r) <= 10
        /\ Len(r) = Min(10, Cardinality(first))
        /\ \A k, l \in 1..Len(r) :
              k # l => toLowerCase(r[k].name) # toLowerCase(r[l].name)
        /\ \A k \in 1..Len(r) : r[k] = cs[Kth(first, k)]

\* twelve regions, one repeating an earlier name in another case with
\* another title and phone: ten contacts are returned
C14_Witness ==
    /\ Returned("removeDuplicateContacts")
    /\ Len(fn.arg) = 12
    /\ fn.arg[3].name = <<"a", "X">>
    /\ fn.arg[3].title # fn.arg[1].title
    /\ Len(fn.ret) = 10
    /\ fn.ret[3].name = <<"D", "x">>

\* the urls of a list of results, in order
UrlsOf(rs) == [k \in 1..Len(rs) |-> rs[k].url]

\* the number of rows the export holds for a result
RowCount(r) == IF r.success /\ Len(r.data[1].contacts) > 1 THEN Len(r.data[1].contacts) ELSE 1

RECURSIVE UrlPerRow(_)
\* the url of every result with a well-formed url, once per row of the result
UrlPerRow(rs) ==
    IF rs = <<>> THEN <<>>
    ELSE (IF NewUrlThrows(Head(rs).url) THEN <<>>
          ELSE [k \in 1..RowCount(Head(rs)) |-> Head(rs).url])
         \o UrlPerRow(Tail(rs))

\* C16 as stated: exporting a list of results and parsing the export back
\* gives the urls of the results, same members in the same order, whatever
\* the results are.
C16_RoundTrip ==
    Returned("exportThenParse") => fn.ret = UrlsOf(fn.arg)

\* C16: exporting a list of results and parsing the export back gives, in
\* the order of the results, the url of every result whose url is
\* well-formed, once per exported row (once per contact of a successful
\* result with several contacts); it gives the original urls when every url
\* is well-formed and no result has more than one contact.
C16_RoundTripPerRow ==
    Returned("exportThenParse") =>
        /\ fn.ret = UrlPerRow(fn.arg)
        /\ (\A k \in 1..Len(fn.arg) :
               ~NewUrlThrows(fn.arg[k].url) /\ RowCount(fn.arg[k]) = 1)
              => fn.ret = UrlsOf(fn.arg)

\* a result with two contacts, one with a url holding a comma and a failed
\* one with a malformed url have been exported and parsed back
C16_Witness ==
    /\ Returned("exportThenParse")
    /\ Len(fn.arg) = 3
    /\ fn.arg[1].url = ClientErrUrl /\ fn.arg[1].success
    /\ fn.arg[2].url = CommaUrl
    /\ fn.arg[3].url = NoSchemeUrl
    /\ fn.ret = <<ClientErrUrl, ClientErrUrl, CommaUrl>>

\* the well-formed urls the first column of a CSV text holds below its
\* header line, in file order
FirstColumnUrls(text) ==
    LET lines == csvLines(text)
        firsts == [l \in 1..(Len(lines) - 1) |->
                      IF lines[l + 1] = <<>> THEN <<>> ELSE trim(lines[l + 1][1])]
    IN  SelectSeq(firsts, LAMBDA v : v # <<>> /\ ~NewUrlThrows(v))

\* C18: the upload endpoint answers success only for a file whose name ends
\* in .csv, of at most 5 MB, whose first column holds between 1 and 50
\* well-formed urls; the answer then holds those urls in file order, all
\* well-formed, with count their number, at most 50; no well-formed url or
\* more than 50 gives 400.
C18_UploadWithinBatchBound ==
    Returned("uploadPOST") /\ fn.arg.hasFile =>
        LET first == FirstColumnUrls(fn.arg.text) IN
        /\ fn.ret.status = 200 =>
              /\ endsWith(fn.arg.name, <<".", "csv">>)
              /\ fn.arg.size <= 5 * 1024 * 1024
              /\ Len(first) \in 1..50
              /\ fn.ret.body.urls = first
              /\ \A k \in 1..Len(fn.ret.body.urls) : ~NewUrlThrows(fn.ret.body.urls[k])
              /\ fn.ret.body.count = Len(fn.ret.body.urls)
              /\ ~TooMany(fn.ret.body.urls)
        /\ (Len(first) = 0 \/ Len(first) > 50) => fn.ret.status = 400

\* what the example names: the address in lower case, the normalized
\* number, the name and the title
ExampleEmail == <<"i", "n", "f", "o", "@", "e", "x", "a", "m", "p", "l", "e", ".", "f", "i">>
ExamplePhone == <<"+", "3", "5", "8", "4", "0", "1", "2", "3", "4", "5", "6", "7">>
ExampleName == <<"M", "a", "t", "t", "i", " ", "M", "e", "i", "k", "ä", "l", "ä", "i", "n", "e", "n">>
ExampleTitle == <<"t", "o", "i", "m", "i", "t", "u", "s", "j", "o", "h", "t", "a", "j", "a">>

\* the contact of the example, with the given email (<<>>: none)
ExampleContact(email) ==
    [name |-> ExampleName, title |-> ExampleTitle, phone |-> ExamplePhone, email |-> email]

\* C17 as stated: for every page whose body holds the link and the
\* sentence, emailAddresses is the one lower-cased address, phoneNumbers
\* holds the normalized number, and contacts holds the contact with the
\* name, the title, the normalized number and the lower-cased address.
C17_ExamplePage ==
    Returned("extractContactInfo") =>
        /\ fn.ret.emailAddresses = <<ExampleEmail>>
        /\ \E k \in 1..Len(fn.ret.phoneNumbers) : fn.ret.phoneNumbers[k] = ExamplePhone
        /\ \E k \in 1..Len(fn.ret.contacts) : fn.ret.contacts[k] = ExampleContact(ExampleEmail)

\* C17: for every such page the address of the link, lower-cased, is the
\* first of emailAddresses (the only one unless the text of the page runs
\* an address into a neighbouring word) and phoneNumbers is the normalized
\* number.  A contact is produced only when link and sentence lie in a
\* div, section or article; when nothing but the address and white space
\* stands before the sentence, it is the one contact, with the name, the
\* title and the normalized number, and its email is the lower-cased
\* address when the address is the text of the link, set off by white
\* space, and absent when the link has another text: the href of the link
\* is not used for the contact.
C17_ExampleByRegion ==
    Returned("extractContactInfo") =>
        LET block == fn.arg[1]
            linkFirst == block.kids[1].tag = "a"
            link == IF linkFirst THEN block.kids[1] ELSE block.kids[2]
            sentence == IF linkFirst THEN block.kids[2] ELSE block.kids[1]
            gap == Len(sentence.text) > Len(ExampleSentence)
            region == block.tag \in {"div", "section", "article"}
            addressSetOff == link.text = ExampleAddress /\ gap
            sentenceFirst == ~linkFirst \/ link.text = <<>> \/ addressSetOff
        IN  /\ fn.ret.emailAddresses # <<>>
            /\ fn.ret.emailAddresses[1] = ExampleEmail
            /\ (link.text # ExampleAddress \/ gap) => fn.ret.emailAddresses = <<ExampleEmail>>
            /\ fn.ret.phoneNumbers = <<ExamplePhone>>
            /\ ~region => fn.ret.contacts = <<>>
            /\ (region /\ sentenceFirst /\ addressSetOff)
                  => fn.ret.contacts = <<ExampleContact(ExampleEmail)>>
            /\ (region /\ sentenceFirst /\ link.text # ExampleAddress)
                  => fn.ret.contacts = <<ExampleContact(<<>>)>>

\* link and sentence in a div, the address as the text of the link and a
\* space before the sentence: the contact of the example is returned
C17_Witness ==
    /\ Returned("extractContactInfo")
    /\ fn.arg[1].tag = "div"
    /\ fn.arg[1].kids[1] = Link(ExampleLinkHref, ExampleAddress)
    /\ fn.arg[1].kids[2].text = <<" ">> \o ExampleSentence
    /\ fn.ret.contacts = <<ExampleContact(ExampleEmail)>>
    /\ fn.ret.emailAddresses = <<ExampleEmail>>

\* the events a scrape goes through up to its third request
Schedule ==
    <<"jitter", "request", "delay", "jitter", "request", "delay", "jitter", "request">>

\* the kinds of the events a pipeline has logged, in order
Events(t) == [n \in 1..Len(t.log) |-> t.log[n].ev]

\* C21: the request of attempt n is issued only after its delays have
\* elapsed: before the requests of attempts 2 and 3 a progressive delay of
\* 1000*n ms and then a jitter delay of 500..1499 ms, before the request of
\* attempt 1 the jitter delay only; a pipeline whose url is invalid sleeps
\* nothing.
C21_DelaysBeforeRequest ==
    \A k \in 1..Len(tasks) :
        LET t == tasks[k] IN
        /\ Len(t.log) <= Len(Schedule)
        /\ Events(t) = SubSeq(Schedule, 1, Len(t.log))
        /\ \A n \in 1..Len(Delays(t)) : Delays(t)[n] = 1000 * (n + 1)
        /\ t.pc = "delay" =>
              /\ t.attempt \in {2, 3}
              /\ t.timer = 1000 * t.attempt
              /\ Cardinality(Requests(t)) = t.attempt - 1
              /\ Len(Delays(t)) = t.attempt - 2
        /\ t.pc = "jitter" =>
              /\ t.timer >= 500 /\ t.timer < 1500
              /\ Len(Delays(t)) = t.attempt - 1
              /\ Cardinality(Requests(t)) = t.attempt - 1
        /\ t.pc = "fetch" =>
              /\ Cardinality(Requests(t)) = t.attempt
              /\ Len(Delays(t)) = t.attempt - 1
              /\ t.log[Len(t.log) - 1].ev = "jitter"
        /\ ~isValidUrl(t.url) => t.log = <<>> /\ t.pc = "done"

\* the third request is in flight, after delays of 2000 and 3000 ms
C21_Witness ==
    \E k \in 1..Len(tasks) :
        /\ tasks[k].pc = "fetch"
        /\ tasks[k].attempt = 3
        /\ Delays(tasks[k]) = <<2000, 3000>>
        /\ Events(tasks[k]) = Schedule

\* the state of a pipeline follows from its own url, its own requests and
\* its own last error
OwnState(t) ==
    /\ t.pc \in {"delay", "jitter"} => Cardinality(Requests(t)) = t.attempt - 1
    /\ t.pc = "fetch" => Cardinality(Requests(t)) = t.attempt
    /\ Done(t) =>
          /\ Cardinality(Requests(t)) = IF isValidUrl(t.url) THEN t.attempt ELSE 0
          /\ TaskResult(t).url = t.url
          /\ TaskResult(t).success => t.out[1].ok
          /\ ~TaskResult(t).success =>
                /\ TaskResult(t).error = FinalErrorMsg(t.url, t.lastError)
                /\ isNonRetryableError(t.lastError) \/ Cardinality(Requests(t)) = maxRetries

\* C22: the pipelines of a chunk share no retry state: a step of one
\* pipeline changes no sibling, every pipeline counts its own attempts and
\* keeps its own last error, and a pipeline that fails on retryable errors
\* has made its 3 requests whatever its siblings did.
C22_NoSharedRetryState ==
    /\ [](\A k \in 1..Len(tasks) : OwnState(tasks[k]))
    /\ [][\A k, j \in 1..Len(tasks) :
            (cur' = cur /\ phase' = "running" /\ j # k /\ tasks'[k] # tasks[k])
                => tasks'[j] = tasks[j]]_vars

\* a pipeline is at its third request, after an error of its own, beside a
\* sibling that succeeded at its first
C22_Witness ==
    \E k, j \in 1..Len(tasks) :
        /\ tasks[k].pc = "fetch" /\ tasks[k].attempt = 3 /\ tasks[k].lastError # <<>>
        /\ Done(tasks[j]) /\ TaskResult(tasks[j]).success
        /\ tasks[j].attempt = 1 /\ tasks[j].lastError = <<>>

\* a result carries data and no error when it succeeded, a message and no
\* data when it failed
OneOfDataAndError(r) ==
    IF r.success
    THEN DOMAIN r = {"url", "success", "data"}
    ELSE DOMAIN r = {"url", "success", "error"} /\ r.error # <<>>

\* C29: every result of a batch has exactly one of data and error, data
\* when success is true and a non-empty message when it is false; the result
\* of a pipeline is written when the pipeline finishes and stays as it is
\* while its chunk runs, and the results collected so far are only added to.
C29_ResultWrittenOnce ==
    /\ [](/\ \A k \in 1..Len(tasks) : Done(tasks[k]) => OneOfDataAndError(TaskResult(tasks[k]))
          /\ \A i \in 1..Len(results) : OneOfDataAndError(results[i])
          /\ Answered => response.body.results = results)
    /\ [][/\ Len(results') >= Len(results)
          /\ SubSeq(results', 1, Len(results)) = results
          /\ \A k \in 1..Len(tasks) :
                (Done(tasks[k]) /\ cur' = cur) => tasks'[k].result = tasks[k].result]_vars

\* a batch answered with a failed result and a successful one
C29_Witness ==
    /\ Answered
    /\ \E i, j \in 1..Len(response.body.results) :
          /\ response.body.results[i].success
          /\ ~response.body.results[j].success
          /\ response.body.results[j].error # <<>>

\* the last attempt of the pipeline got a page and failed to extract it
ExtractionFailed(t) == t.lastError = ExtractErrorMsg

\* C30 as stated: once an attempt has received a response with a status
\* below 400 no further request is made: a pipeline whose extraction failed
\* has ended, as a failure of its url, with the requests made up to then.
C30_AsStated ==
    \A k \in 1..Len(tasks) :
        ExtractionFailed(tasks[k]) =>
            /\ Done(tasks[k])
            /\ ~TaskResult(tasks[k]).success

\* C30: a response with a status below 400 ends the scrape at that attempt
\* when the extraction succeeds, and no request follows.  A failure of the
\* extraction is handled as a retryable failure: at attempts 1 and 2 the
\* pipeline goes on to the next attempt, which fetches the page again with
\* the next profile, and at attempt 3 the scrape ends as a failure of the
\* url carrying the extraction error.
C30_ExtractionFailureRetried ==
    /\ [](\A k \in 1..Len(tasks) :
            (Done(tasks[k]) /\ TaskResult(tasks[k]).success) =>
                Cardinality(Requests(tasks[k])) = tasks[k].attempt)
    /\ [][\A k \in 1..Len(tasks) :
            /\ (Done(tasks[k]) /\ cur' = cur) => tasks'[k].log = tasks[k].log
            /\ (tasks[k].pc = "fetch" /\ cur' = cur /\ tasks'[k] # tasks[k]) =>
                  \/ /\ Done(tasks'[k]) /\ TaskResult(tasks'[k]).success
                     /\ tasks'[k].attempt = tasks[k].attempt
                     /\ tasks'[k].log = tasks[k].log
                  \/ /\ ExtractionFailed(tasks'[k])
                     /\ IF tasks[k].attempt < maxRetries
                        THEN /\ tasks'[k].pc = "delay"
                             /\ tasks'[k].attempt = tasks[k].attempt + 1
                        ELSE /\ Done(tasks'[k])
                             /\ ~TaskResult(tasks'[k]).success
                             /\ TaskResult(tasks'[k]).error
                                   = FinalErrorMsg(tasks[k].url, ExtractErrorMsg)
                  \/ /\ ~ExtractionFailed(tasks'[k])
                     /\ tasks'[k].lastError # <<>>
                     /\ ~(Done(tasks'[k]) /\ TaskResult(tasks'[k]).success)]_vars

\* the page is being fetched a second time after the extraction of the
\* first response failed
C30_Witness ==
    \E k \in 1..Len(tasks) :
        /\ tasks[k].pc = "fetch"
        /\ tasks[k].attempt = 2
        /\ ExtractionFailed(tasks[k])
        /\ Cardinality(Requests(tasks[k])) = 2

\* the number of double quotes in a value
QuoteCount(value) == Cardinality({i \in 1..Len(value) : value[i] = "\""})

\* the value holds a comma, a double quote or a newline
NeedsQuotes(value) == \E i \in 1..Len(value) : value[i] \in {",", "\"", "\n"}

\* the cell is wrapped in double quotes
Wrapped(cell) == Len(cell) >= 2 /\ cell[1] = "\"" /\ cell[Len(cell)] = "\""

\* the cell is how the export writes the value
ExportedAs(cell, value) ==
    /\ Wrapped(cell) <=> NeedsQuotes(value)
    /\ ~Wrapped(cell) => cell = value
    /\ Wrapped(cell) =>
          /\ QuoteCount(SubSeq(cell, 2, Len(cell) - 1)) = 2 * QuoteCount(value)
          /\ Len(cell) = Len(value) + QuoteCount(value) + 2
    /\ parseCell(cell) = value

\* C27: the export starts with the header row
\* URL,Name,Title,Phone,Email,Error, and each row below it has 6 cells; a
\* cell is wrapped in double quotes exactly when its value holds a comma, a
\* double quote or a newline, every double quote of a wrapped value is
\* doubled, and un-escaping a cell gives the value back.
C27_ExportFormat ==
    Returned("createCSVFromResults") =>
        LET rows == RowsOfResults(fn.arg)
            lines == splitOutsideQuotes(fn.ret, "\n")
        IN  /\ lines[1] = <<"URL", ",", "Name", ",", "Title", ",", "Phone", ",",
                            "Email", ",", "Error">>
            /\ Len(lines) = Len(rows) + 1
            /\ \A r \in 1..Len(rows) :
                  LET cells == splitOutsideQuotes(lines[r + 1], ",") IN
                  /\ Len(rows[r]) = 6
                  /\ Len(cells) = 6
                  /\ \A c \in 1..6 : ExportedAs(cells[c], rows[r][c])

\* a url with a comma, a name with double quotes and an error with a comma
\* and a newline have been exported
C27_Witness ==
    /\ Returned("createCSVFromResults")
    /\ Len(fn.arg) = 2
    /\ fn.arg[1].url = CommaUrl
    /\ fn.arg[2].url = UnreachUrl
    /\ Includes(fn.ret, <<"\"", "Matti", " ", "\"", "\"", "Masa", "\"", "\"", "\"", ",">>)
    /\ Includes(fn.ret, <<"\"", "Failed", ",", " ", "after", "\n", "3", "\"">>)

\* the name-shaped substrings of the text of a section
NamesIn(block) == match(peopleNamePattern, textOf(block))

\* C23: whenever a section matched by the people selectors holds a
\* name-shaped substring (two or three capitalized words), the people of
\* the result hold an entry with that name, names compared ignoring case
\* (no page of the model holds more than 10 names).
C23_PeopleCollected ==
    Returned("extractContactInfo") =>
        \A b \in 1..Len(fn.arg) :
            (\E n \in 1..Len(peopleSelectors) : matches(peopleSelectors[n], fn.arg[b])) =>
                \A m \in 1..Len(NamesIn(fn.arg[b])) :
                    \E p \in 1..Len(fn.ret.people) :
                        toLowerCase(fn.ret.people[p].name)
                            = toLowerCase(NamesIn(fn.arg[b])[m])

Tuntematon == <<"T", "u", "n", "t", "e", "m", "a", "t", "o", "n">>

\* the title the code gives to a contact of a region with this lower-cased
\* text: the first keyword of titleKeywords the text includes, or the given
\* sentinel when it includes none
TitleInListOrder(title, lowered, sentinel) ==
    IF \E k \in 1..Len(titleKeywords) : Includes(lowered, titleKeywords[k])
    THEN \E k \in 1..Len(titleKeywords) :
            /\ title = titleKeywords[k]
            /\ Includes(lowered, titleKeywords[k])
            /\ \A j \in 1..(k - 1) : ~Includes(lowered, titleKeywords[j])
    ELSE title = sentinel

\* C25 as stated: the title of a contact is the first keyword, in the
\* order of the keyword list, that the lower-cased text of its region
\* includes, and "unknown" when the text includes no keyword.
C25_AsStated ==
    Returned("extractFromRegions") /\ Len(fn.arg) = 1 =>
        \A c \in 1..Len(fn.ret.contacts) :
            TitleInListOrder(fn.ret.contacts[c].title, toLowerCase(textOf(fn.arg[1])),
                             <<"u", "n", "k", "n", "o", "w", "n">>)

\* C25 amended: the title of a contact is the first keyword, in the order
\* of the keyword list and not of the text, that the lower-cased text of
\* its region includes, and 'Tuntematon' when the text includes no keyword.
C25_TitleInListOrder ==
    Returned("extractFromRegions") /\ Len(fn.arg) = 1 =>
        \A c \in 1..Len(fn.ret.contacts) :
            TitleInListOrder(fn.ret.contacts[c].title, toLowerCase(textOf(fn.arg[1])), Tuntematon)

\* "sales manager" stands before "CEO" in the text, 'ceo' before 'sales
\* manager' in the list: the title is 'ceo'
C25_Witness ==
    /\ Returned("extractFromRegions")
    /\ fn.arg = <<Region("contact",
                         Sentence(<<"M", "a", "t", "t", "i", " ", "M", "e", "i", "k", "ä", "l", "ä", "i", "n", "e", "n">>,
                                  <<"s", "a", "l", "e", "s", " ", "m", "a", "n", "a", "g", "e", "r", " ", "a", "n", "d", " ", "C", "E", "O">>,
                                  <<>>, <<>>))>>
    /\ Len(fn.ret.contacts) = 1
    /\ fn.ret.contacts[1].title = <<"c", "e", "o">>

\* what a reader takes from each part of a sentence: the title by the
\* keyword list, the phone number in international form without
\* separators, the address in lower case; <<>> for a part that is missing
TitleRead(title) ==
    CASE title = <<"s", "a", "l", "e", "s", " ", "m", "a", "n", "a", "g", "e", "r", " ", "a", "n", "d", " ", "C", "E", "O">>
           -> <<"c", "e", "o">>
      [] title = <<"M", "y", "y", "n", "t", "i", "p", "ä", "ä", "l", "l", "i", "k", "k", "ö">>
           -> <<"m", "y", "y", "n", "t", "i", "p", "ä", "ä", "l", "l", "i", "k", "k", "ö">>
      [] OTHER -> Tuntematon
PhoneRead(phone) ==
    CASE phone = <<"0", "4", "0", " ", "1", "2", "3", " ", "4", "5", "6", "7">>
           -> <<"+", "3", "5", "8", "4", "0", "1", "2", "3", "4", "5", "6", "7">>
      [] phone = <<"+", "3", "5", "8", " ", "5", "0", " ", "1", "2", "3", " ", "4", "5", "6", "7">>
           -> <<"+", "3", "5", "8", "5", "0", "1", "2", "3", "4", "5", "6", "7">>
      [] phone = <<"+", "3", "5", "8", " ", "0", "4", " ", "0", "1", "2", " ", "3", "4", "5", "6">>
           -> <<"+", "3", "5", "8", "0", "4", "0", "1", "2", "3", "4", "5", "6">>
      [] OTHER -> <<>>
EmailRead(email) ==
    CASE email = <<"I", "n", "f", "o", "@", "E", "x", "a", "m", "p", "l", "e", ".", "F", "I">>
           -> <<"i", "n", "f", "o", "@", "e", "x", "a", "m", "p", "l", "e", ".", "f", "i">>
      [] OTHER -> email

\* a region is contact-bearing when the contact selectors match it, or when
\* it is a div whose text holds a name and a phone number or an address
Bearing(kind, name, phone, email) ==
    \/ kind = "contact"
    \/ kind = "div" /\ name # <<>> /\ (phone # <<>> \/ email # <<>>)

\* the record of a region, as <<record>>, or <<>>
RecordRead(kind, name, title, phone, email) ==
    IF Bearing(kind, name, phone, email) /\ name # <<>>
    THEN <<[name |-> name, title |-> TitleRead(title),
            phone |-> PhoneRead(phone), email |-> EmailRead(email)]>>
    ELSE <<>>

FullName == <<"M", "a", "t", "t", "i", " ", "M", "e", "i", "k", "ä", "l", "ä", "i", "n", "e", "n">>
FullRegion ==
    Region("contact", Sentence(FullName,
                               <<"s", "a", "l", "e", "s", " ", "m", "a", "n", "a", "g", "e", "r", " ", "a", "n", "d", " ", "C", "E", "O">>,
                               <<"0", "4", "0", " ", "1", "2", "3", " ", "4", "5", "6", "7">>,
                               <<"I", "n", "f", "o", "@", "E", "x", "a", "m", "p", "l", "e", ".", "F", "I">>))
FullRecord ==
    [name |-> FullName, title |-> <<"c", "e", "o">>,
     phone |-> <<"+", "3", "5", "8", "4", "0", "1", "2", "3", "4", "5", "6", "7">>,
     email |-> <<"i", "n", "f", "o", "@", "e", "x", "a", "m", "p", "l", "e", ".", "f", "i">>]

\* C24: a contact-bearing region gives one record when its text holds a
\* name, also without a phone number and an address, and none when it
\* holds no name; the title, phone and email of the record are those of
\* the text of the same region, and a field the region lacks stays empty
\* also when another region of the page, or a link of the region, has it.
C24_OneRecordPerRegion ==
    Returned("extractFromRegions") =>
        \A kind \in {"contact", "div", "none"}, name \in PartNames, title \in PartTitles,
           phone \in PartPhones, email \in PartEmails :
            /\ fn.arg = <<Region(kind, Sentence(name, title, phone, email))>>
                   => fn.ret.contacts = RecordRead(kind, name, title, phone, email)
            /\ fn.arg = <<FullRegion, Region(kind, Sentence(name, title, phone, email))>>
                   => fn.ret.contacts =
                          <<FullRecord>>
                          \o (IF name = FullName THEN <<>>
                              ELSE RecordRead(kind, name, title, phone, email))
            /\ \A href \in MailtoHrefs \cup TelHrefs :
                   fn.arg = LinkPage(href, phone, email)
                       => fn.ret.contacts = RecordRead("div", FullName, <<>>, phone, email)

\* a contact section that names only Liisa Virtanen after the full section
\* of Matti Meikäläinen: her record has no phone and no email
C24_Witness ==
    /\ Returned("extractFromRegions")
    /\ fn.arg = <<FullRegion,
                  Region("contact", <<"L", "i", "i", "s", "a", " ", "V", "i", "r", "t", "a", "n", "e", "n">>)>>
    /\ Len(fn.ret.contacts) = 2
    /\ fn.ret.contacts[2] =
           [name |-> <<"L", "i", "i", "s", "a", " ", "V", "i", "r", "t", "a", "n", "e", "n">>,
            title |-> Tuntematon, phone |-> <<>>, email |-> <<>>]

ExtractedPage == Returned("extractContactInfo") \/ Returned("extractFromRegions")

\* a stored address: no capital letter in it, and valid
StoredEmail(email) ==
    /\ \A i \in 1..Len(email) : email[i] \notin AZFi
    /\ isValidEmail(email)

\* C26: every address of emailAddresses and every email of a contact is
\* lower-case and valid, and no two addresses of emailAddresses are equal
\* ignoring case, for addresses of mailto: links, of the text, and of both
\* in different case.
C26_EmailsLowerCaseAndUnique ==
    ExtractedPage =>
        /\ \A i \in 1..Len(fn.ret.emailAddresses) :
              /\ StoredEmail(fn.ret.emailAddresses[i])
              /\ \A j \in 1..(i - 1) :
                    toLowerCase(fn.ret.emailAddresses[j])
                        # toLowerCase(fn.ret.emailAddresses[i])
        /\ \A c \in 1..Len(fn.ret.contacts) :
              fn.ret.contacts[c].email = <<>> \/ StoredEmail(fn.ret.contacts[c].email)

\* the link says INFO@EXAMPLE.FI and the text Info@Example.FI: one address
\* is stored, and it is the email of the contact
C26_Witness ==
    /\ Returned("extractFromRegions")
    /\ fn.arg = LinkPage(<<"m", "a", "i", "l", "t", "o", ":", "I", "N", "F", "O", "@", "E", "X", "A", "M", "P", "L", "E", ".", "F", "I">>,
                         <<>>,
                         <<"I", "n", "f", "o", "@", "E", "x", "a", "m", "p", "l", "e", ".", "F", "I">>)
    /\ fn.ret.emailAddresses = <<<<"i", "n", "f", "o", "@", "e", "x", "a", "m", "p", "l", "e", ".", "f", "i">>>>
    /\ Len(fn.ret.contacts) = 1
    /\ fn.ret.contacts[1].email = <<"i", "n", "f", "o", "@", "e", "x", "a", "m", "p", "l", "e", ".", "f", "i">>

\* a stored phone number: +358 and 8 or 9 digits, nothing else
StoredPhone(phone) ==
    /\ Len(phone) \in {12, 13}
    /\ SubSeq(phone, 1, 4) = <<"+", "3", "5", "8">>
    /\ \A i \in 5..Len(phone) : phone[i] \in Digits

\* the phone numbers of a result: phoneNumbers and the phones of the contacts
PhonesOf(ret) ==
    {ret.phoneNumbers[i] : i \in 1..Len(ret.phoneNumbers)}
    \cup {ret.contacts[c].phone : c \in {c \in 1..Len(ret.contacts) : ret.contacts[c].phone # <<>>}}

NoDuplicates(seq) == \A i \in 1..Len(seq) : \A j \in 1..(i - 1) : seq[j] # seq[i]

\* C28 as stated: every stored phone number is +358 followed by 8 or 9
\* digits without separators and without the national 0 after the prefix,
\* and phoneNumbers holds no number twice.
C28_AsStated ==
    ExtractedPage =>
        /\ \A phone \in PhonesOf(fn.ret) : StoredPhone(phone) /\ phone[5] # "0"
        /\ NoDuplicates(fn.ret.phoneNumbers)

\* C28 amended: every stored phone number is +358 followed by 8 or 9 digits
\* without separators (so the number was never left as matched), and
\* phoneNumbers holds no number twice; a 0 stands after the prefix only
\* when the page wrote a 0 after +358.
C28_StoredPhoneForm ==
    ExtractedPage =>
        /\ \A phone \in PhonesOf(fn.ret) :
              /\ StoredPhone(phone)
              /\ phone[5] = "0" => Includes(bodyText(fn.arg), <<"+", "3", "5", "8", " ", "0">>)
        /\ NoDuplicates(fn.ret.phoneNumbers)

\* the link says 0401234567 and the text 040 123 4567: one number is
\* stored, without the national 0, and it is the phone of the contact
C28_Witness ==
    /\ Returned("extractFromRegions")
    /\ fn.arg = LinkPage(<<"t", "e", "l", ":", "0", "4", "0", "1", "2", "3", "4", "5", "6", "7">>,
                         <<"0", "4", "0", " ", "1", "2", "3", " ", "4", "5", "6", "7">>,
                         <<>>)
    /\ fn.ret.phoneNumbers = <<<<"+", "3", "5", "8", "4", "0", "1", "2", "3", "4", "5", "6", "7">>>>
    /\ Len(fn.ret.contacts) = 1
    /\ fn.ret.contacts[1].phone = <<"+", "3", "5", "8", "4", "0", "1", "2", "3", "4", "5", "6", "7">>
====
